---- MODULE Spec2Model ----
(***************************************************************************)
(* Productboard connector (server/index.js, version 2.0.0): the tool       *)
(* dispatch, the argument normalizers, the two pagination walkers and the  *)
(* HTTP client adapter, as one state machine of a single tool invocation.  *)
(*                                                                         *)
(* An invocation runs synchronously from the CallTool dispatch to its      *)
(* first awaited fetch (CallTool), is resumed by the remote's answer       *)
(* (RespondOk, RespondError, NetworkFail) and ends with one envelope.      *)
(***************************************************************************)
EXTENDS Integers, Sequences, FiniteSets, TLC

VARIABLES
    envToken,   \* process.env.PRODUCTBOARD_API_TOKEN
    pc,         \* "idle" (no call yet), "await" (a fetch is outstanding), "done"
    toolName,   \* request.params.name
    toolArgs,   \* request.params.arguments ?? {}
    frame,      \* locals of the suspended handler (walker accumulator, phase)
    requests,   \* every fetch issued by this invocation, in order
    fetched,    \* history: concatenation of the data arrays received
    responses,  \* history: the 2xx payloads received by a walker
    answers,    \* history: how each fetch ended (2xx, a non-2xx status, rejected)
    parked,     \* the other invocations of the dispatch handler, each suspended
    caught,     \* history: the error the dispatch handler caught
    outcome     \* what the dispatch handler returned to the host

vars ==
    <<envToken, pc, toolName, toolArgs, frame, requests, fetched, responses, answers,
      parked, caught, outcome>>

----------------------------------------------------------------------------
(* JavaScript scalars.  A string-valued argument is modelled by the string  *)
(* itself; the two sentinels stand for the values undefined and null.       *)

Undefined == "<undefined>"
Null == "<null>"

Truthy(v) == v \notin {Undefined, Null, ""}
Nullish(v) == v \in {Undefined, Null}

\* a ?? b
Coalesce(a, b) == IF Nullish(a) THEN b ELSE a

Min(a, b) == IF a <= b THEN a ELSE b

----------------------------------------------------------------------------
(* Program constants                                                        *)

PRODUCTBOARD_BASE_HOST == "api.productboard.com"
DEFAULT_LIMIT == 100
MAX_PAGE_SIZE == 100
LIMIT_CEILING == 1000

----------------------------------------------------------------------------
(* Bounds of the model                                                      *)

MaxSmallLimit == 2   \* small integer limits 1..MaxSmallLimit are walked
MaxSmallPage == 1    \* the remote returns pages of 0..MaxSmallPage items, or full pages
MaxRequests == 3     \* a walk is followed for at most this many requests

----------------------------------------------------------------------------
(* ProductboardApiError and the envelopes                                   *)

NoStatus == 0   \* the status of an error constructed without one (undefined)
NoRetry == [defined |-> FALSE]               \* retryAfter undefined
RetryAfter(n) == [defined |-> TRUE, n |-> n]   \* retryAfter a finite number

\* new ProductboardApiError(message, {status, details, retryAfter}); a message
\* is its fixed text and the value interpolated into it.  kind is not a field
\* of the object: it records which throw site built the error.
ProductboardApiError(kind, text, arg, status, details, retryAfter) ==
    [kind |-> kind, message |-> [text |-> text, arg |-> arg], status |-> status,
     details |-> details, retryAfter |-> retryAfter]

ValidationError(text, arg) ==
    ProductboardApiError("validation", text, arg, 400, Undefined, NoRetry)

\* an error thrown by the JavaScript runtime (a TypeError): no status, no details
RuntimeError(text) ==
    ProductboardApiError("runtime", text, "", NoStatus, Undefined, NoRetry)

NoError == [kind |-> "none"]

asJsonResult(data) ==
    [keys |-> {"content"}, isError |-> FALSE,
     content |-> <<[type |-> "text", json |-> data]>>]

asErrorResult(error) ==
    [keys |-> {"isError", "content"}, isError |-> TRUE,
     content |-> <<[type |-> "text",
                    json |-> [error |->
                        [keys |-> {"message"}
                                  \cup (IF error.status # NoStatus THEN {"status"} ELSE {})
                                  \cup (IF error.retryAfter.defined /\ error.retryAfter.n # 0
                                        THEN {"retry_after_seconds"} ELSE {})
                                  \cup (IF Truthy(error.details) THEN {"details"} ELSE {}),
                         message |-> error.message,
                         status |-> error.status,
                         retry_after_seconds |-> error.retryAfter,
                         details |-> error.details]]]>>]

----------------------------------------------------------------------------
(* Credential                                                               *)

\* A token is the sequence of its characters; set = FALSE is an unset variable.
TokenChars == {" ", "t"}
UnsetToken == [set |-> FALSE, chars |-> <<>>]
TokenOf(chars) == [set |-> TRUE, chars |-> chars]

RECURSIVE TrimStart(_)
TrimStart(s) == IF s # <<>> /\ Head(s) = " " THEN TrimStart(Tail(s)) ELSE s

RECURSIVE TrimEnd(_)
TrimEnd(s) ==
    IF s # <<>> /\ s[Len(s)] = " " THEN TrimEnd(SubSeq(s, 1, Len(s) - 1)) ELSE s

\* String.prototype.trim
Trim(s) == TrimEnd(TrimStart(s))

MissingToken ==
    ProductboardApiError("configuration",
        "Missing Productboard API token. Set PRODUCTBOARD_API_TOKEN in server environment.", "",
                         401, Undefined, NoRetry)

\* a variant that tests the token without trimming it
getApiTokenUntrimmed(token) ==
    IF ~token.set \/ token.chars = <<>>
    THEN [err |-> MissingToken, token |-> <<>>]
    ELSE [err |-> NoError, token |-> Trim(token.chars)]

\* the token to send, or the configuration error thrown
getApiToken(token) ==
    IF ~token.set \/ token.chars = <<>> \/ Trim(token.chars) = <<>>
    THEN [err |-> MissingToken, token |-> <<>>]
    ELSE [err |-> NoError, token |-> Trim(token.chars)]

----------------------------------------------------------------------------
(* normalizeLimit                                                           *)

\* The limit argument: undefined, null, a value Number() maps to NaN (a
\* non-numeric string, an object), an infinity, or a finite number given by
\* its floor and by whether it has a fractional part.
LimitUndefined == [t |-> "undefined", floor |-> 0, frac |-> FALSE]
LimitNull == [t |-> "null", floor |-> 0, frac |-> FALSE]
LimitNaN == [t |-> "nan", floor |-> 0, frac |-> FALSE]
LimitInfinity == [t |-> "infinity", floor |-> 0, frac |-> FALSE]
Num(k) == [t |-> "number", floor |-> k, frac |-> FALSE]
NumFrac(k) == [t |-> "number", floor |-> k, frac |-> TRUE]   \* k < value < k + 1

\* limit <= 0
NonPositive(l) == l.floor < 0 \/ (l.floor = 0 /\ ~l.frac)

normalizeLimit(inputLimit, fallback) ==
    LET limit == IF inputLimit.t \in {"undefined", "null"} THEN Num(fallback)
                 ELSE inputLimit
    IN IF limit.t # "number" \/ NonPositive(limit)
       THEN fallback
       ELSE Min(limit.floor, LIMIT_CEILING)

----------------------------------------------------------------------------
(* URLs and continuation links                                              *)

RelativeNext == "/page?pageCursor=next"
SameHostNext == "https://api.productboard.com/page?pageCursor=next"
ForeignNext == "https://files.example.net/page?pageCursor=next"

\* values of links.next that the walker follows, and values it treats as absent
FollowedLinks == {RelativeNext, SameHostNext, ForeignNext}
AbsentLinks == {Undefined, Null, ""}

\* candidateNext.startsWith("http")
StartsWithHttp(link) == link \in {SameHostNext, ForeignNext}

\* the host of new URL(absolute)
HostOf(absolute) ==
    IF absolute = ForeignNext THEN "files.example.net" ELSE "api.productboard.com"

\* A URL is its host and the rest of it, the pieces of the path it was built
\* from.  new URL(path, PRODUCTBOARD_BASE_URL) for a path that starts with "/":
BaseUrl(path) == [host |-> PRODUCTBOARD_BASE_HOST, href |-> path]

\* new URL(absoluteUrl)
AbsoluteUrl(absolute) == [host |-> HostOf(absolute), href |-> <<absolute>>]

\* nextUrl = null
NoUrl == [host |-> "", href |-> <<>>]

\* listWithLinks: nextUrl for a links.next value, as apiRequest then parses it
ResolveNext(candidateNext) ==
    IF StartsWithHttp(candidateNext)
    THEN AbsoluteUrl(candidateNext)
    ELSE BaseUrl(<<candidateNext>>)

----------------------------------------------------------------------------
(* Argument bags.  An argument bag is a function from the keys the caller   *)
(* supplied to their values, as a JavaScript object is; a key the caller    *)
(* did not supply reads as undefined.                                       *)

EmptyObject == [k \in {} |-> Undefined]

\* args[key]
Get(args, key) == IF key \in DOMAIN args THEN args[key] ELSE Undefined

\* args[outer]?.[inner], for an outer value that is an object when present
Get2(args, outer, inner) ==
    IF outer \in DOMAIN args THEN Get(args[outer], inner) ELSE Undefined

\* toObject(args[outer])[mid]?.[inner]
Get3(args, outer, mid, inner) ==
    IF outer \in DOMAIN args THEN Get2(args[outer], mid, inner) ELSE Undefined

\* a result of a normalizer: the value returned, or the error thrown
Returns(value) == [err |-> NoError, value |-> value]
Throws(error) == [err |-> error, value |-> [defined |-> FALSE]]

\* the return values undefined and {...}
UndefinedValue == [defined |-> FALSE]
ObjectValue(obj) == [defined |-> TRUE, obj |-> obj]

\* {...(cond ? {key: value} : {})}
Field(cond, key, value) == IF cond THEN (key :> value) ELSE EmptyObject

----------------------------------------------------------------------------
(* Status                                                                   *)

\* The inline status argument is a string, an object or a value of another
\* type (a number); an absent key is undefined.
StatusString(s) == [t |-> "string", str |-> s]
StatusObject(obj) == [t |-> "object", obj |-> obj]
StatusNull == [t |-> "null"]
StatusNumber == [t |-> "number"]

\* args.status
RawStatus(args) == IF "status" \in DOMAIN args THEN args["status"] ELSE [t |-> "undefined"]

normalizeStatusInput(rawStatus) ==
    IF rawStatus.t \in {"undefined", "null"} THEN Returns(UndefinedValue)
    ELSE IF rawStatus.t = "string" THEN Returns(ObjectValue([name |-> rawStatus.str]))
    ELSE LET status == IF rawStatus.t = "object" THEN rawStatus.obj ELSE EmptyObject
             id == Get(status, "id")
             name == Get(status, "name")
         IN IF Truthy(id) /\ Truthy(name)
            THEN Throws(ValidationError(
                     "Provide either status.id or status.name, not both.", ""))
            ELSE IF Truthy(id) \/ Truthy(name)
            THEN Returns(ObjectValue(Field(Truthy(id), "id", id)
                                     @@ Field(Truthy(name), "name", name)))
            ELSE Returns(UndefinedValue)

\* a variant without the test of status_id against status_name
resolveStatusFromArgsIdFirst(args) ==
    LET inline == normalizeStatusInput(RawStatus(args))
        status_id == Get(args, "status_id")
        status_name == Get(args, "status_name")
    IN IF inline.err # NoError THEN inline
       ELSE IF inline.value.defined /\ (Truthy(status_id) \/ Truthy(status_name))
       THEN Throws(ValidationError(
                "Provide status either as status object/string OR as status_id/status_name fields.",
                ""))
       ELSE IF inline.value.defined THEN inline
       ELSE IF Truthy(status_id) THEN Returns(ObjectValue([id |-> status_id]))
       ELSE IF Truthy(status_name) THEN Returns(ObjectValue([name |-> status_name]))
       ELSE Returns(UndefinedValue)

resolveStatusFromArgs(args) ==
    LET inline == normalizeStatusInput(RawStatus(args))
        status_id == Get(args, "status_id")
        status_name == Get(args, "status_name")
    IN IF inline.err # NoError THEN inline
       ELSE IF inline.value.defined /\ (Truthy(status_id) \/ Truthy(status_name))
       THEN Throws(ValidationError(
                "Provide status either as status object/string OR as status_id/status_name fields.",
                ""))
       ELSE IF Truthy(status_id) /\ Truthy(status_name)
       THEN Throws(ValidationError(
                "Provide either status_id or status_name, not both.", ""))
       ELSE IF inline.value.defined THEN inline
       ELSE IF Truthy(status_id) THEN Returns(ObjectValue([id |-> status_id]))
       ELSE IF Truthy(status_name) THEN Returns(ObjectValue([name |-> status_name]))
       ELSE Returns(UndefinedValue)

----------------------------------------------------------------------------
(* Hierarchy parent                                                         *)

\* a ?? b ?? c ?? d
Coalesce4(a, b, c, d) == Coalesce(a, Coalesce(b, Coalesce(c, d)))

\* a variant that returns the first kind found when several are given
normalizeParentInputFirstKind(args, required) ==
    LET productId == Coalesce4(Get3(args, "parent", "product", "id"),
                               Get2(args, "product", "id"),
                               Get(args, "product.id"),
                               Get(args, "product_id"))
        componentId == Coalesce4(Get3(args, "parent", "component", "id"),
                                 Get2(args, "component", "id"),
                                 Get(args, "component.id"),
                                 Get(args, "component_id"))
        featureId == Coalesce4(Get3(args, "parent", "feature", "id"),
                               Get2(args, "feature", "id"),
                               Get(args, "feature.id"),
                               Get(args, "parent_feature_id"))
        candidates ==
            (IF Truthy(productId) THEN <<[product |-> [id |-> productId]]>> ELSE <<>>)
            \o (IF Truthy(componentId) THEN <<[component |-> [id |-> componentId]]>> ELSE <<>>)
            \o (IF Truthy(featureId) THEN <<[feature |-> [id |-> featureId]]>> ELSE <<>>)
    IN IF Len(candidates) >= 1 THEN Returns(ObjectValue(candidates[1]))
       ELSE IF required
       THEN Throws(ValidationError(
                "Missing feature parent. Provide product.id, component.id, or parent_feature_id.",
                ""))
       ELSE Returns(UndefinedValue)

normalizeParentInput(args, required) ==
    LET productId == Coalesce4(Get3(args, "parent", "product", "id"),
                               Get2(args, "product", "id"),
                               Get(args, "product.id"),
                               Get(args, "product_id"))
        componentId == Coalesce4(Get3(args, "parent", "component", "id"),
                                 Get2(args, "component", "id"),
                                 Get(args, "component.id"),
                                 Get(args, "component_id"))
        featureId == Coalesce4(Get3(args, "parent", "feature", "id"),
                               Get2(args, "feature", "id"),
                               Get(args, "feature.id"),
                               Get(args, "parent_feature_id"))
        candidates ==
            (IF Truthy(productId) THEN <<[product |-> [id |-> productId]]>> ELSE <<>>)
            \o (IF Truthy(componentId) THEN <<[component |-> [id |-> componentId]]>> ELSE <<>>)
            \o (IF Truthy(featureId) THEN <<[feature |-> [id |-> featureId]]>> ELSE <<>>)
    IN IF Len(candidates) > 1
       THEN Throws(ValidationError(
                "Provide only one parent type: product, component, or feature.", ""))
       ELSE IF Len(candidates) = 1 THEN Returns(ObjectValue(candidates[1]))
       ELSE IF required
       THEN Throws(ValidationError(
                "Missing feature parent. Provide product.id, component.id, or parent_feature_id.",
                ""))
       ELSE Returns(UndefinedValue)

----------------------------------------------------------------------------
(* Timeframe, progress, booleans, string lists                              *)

\* value !== undefined && value !== null && value !== ""
Present(value) == value \notin {Undefined, Null, ""}

\* buildDateTimeframeInput(args.timeframe, {startDate: args.start_date ??
\* args.startDate, endDate: args.end_date ?? args.endDate, granularity})
\* a variant without the test of startDate against endDate
buildDateTimeframeInputOneSided(args) ==
    LET startDate == Coalesce(Coalesce(Get(args, "start_date"), Get(args, "startDate")),
                              Coalesce(Get2(args, "timeframe", "startDate"),
                                       Get2(args, "timeframe", "start")))
        endDate == Coalesce(Coalesce(Get(args, "end_date"), Get(args, "endDate")),
                            Coalesce(Get2(args, "timeframe", "endDate"),
                                     Get2(args, "timeframe", "end")))
        granularity == Coalesce(Get(args, "granularity"),
                                Get2(args, "timeframe", "granularity"))
        hasStartDate == Present(startDate)
        hasEndDate == Present(endDate)
        hasGranularity == Present(granularity)
    IN IF ~hasStartDate /\ ~hasEndDate /\ ~hasGranularity THEN Returns(UndefinedValue)
       ELSE Returns(ObjectValue(Field(hasStartDate, "startDate", startDate)
                                @@ Field(hasEndDate, "endDate", endDate)
                                @@ Field(hasGranularity, "granularity", granularity)))

buildDateTimeframeInput(args) ==
    LET startDate == Coalesce(Coalesce(Get(args, "start_date"), Get(args, "startDate")),
                              Coalesce(Get2(args, "timeframe", "startDate"),
                                       Get2(args, "timeframe", "start")))
        endDate == Coalesce(Coalesce(Get(args, "end_date"), Get(args, "endDate")),
                            Coalesce(Get2(args, "timeframe", "endDate"),
                                     Get2(args, "timeframe", "end")))
        granularity == Coalesce(Get(args, "granularity"),
                                Get2(args, "timeframe", "granularity"))
        hasStartDate == Present(startDate)
        hasEndDate == Present(endDate)
        hasGranularity == Present(granularity)
    IN IF ~hasStartDate /\ ~hasEndDate /\ ~hasGranularity THEN Returns(UndefinedValue)
       ELSE IF hasStartDate # hasEndDate
       THEN Throws(ValidationError(
                "Timeframe requires both startDate and endDate when provided.", ""))
       ELSE Returns(ObjectValue(Field(hasStartDate, "startDate", startDate)
                                @@ Field(hasEndDate, "endDate", endDate)
                                @@ Field(hasGranularity, "granularity", granularity)))

\* Values that Number() maps to a finite number: numeric strings and numbers,
\* written by their decimal digits.
FiniteNumerals == {"0", "5", "40", "100"}

\* Number(value) for such a value
NumberOf(value) ==
    CASE value = "0" -> 0 [] value = "5" -> 5 [] value = "40" -> 40 [] value = "100" -> 100

\* a variant that reads the empty string as Number("") = 0
toOptionalNumberOfEmpty(value, fieldName) ==
    IF value \in {Undefined, Null} THEN Returns(UndefinedValue)
    ELSE IF value = "" THEN Returns([defined |-> TRUE, number |-> 0])
    ELSE IF value \notin FiniteNumerals
    THEN Throws(ValidationError("Invalid number for ", fieldName))
    ELSE Returns([defined |-> TRUE, number |-> NumberOf(value)])

toOptionalNumber(value, fieldName) ==
    IF value \in {Undefined, Null, ""} THEN Returns(UndefinedValue)
    ELSE IF value \notin FiniteNumerals
    THEN Throws(ValidationError("Invalid number for ", fieldName))
    ELSE Returns([defined |-> TRUE, number |-> NumberOf(value)])

\* args.progress is an object (its fields are read), or a number or string
\* (the scalar progress), here a key "progress" holding [t, ...]
ProgressObject(obj) == [t |-> "object", obj |-> obj]
ProgressScalar(value) == [t |-> "scalar", value |-> value]

buildProgressInput(args) ==
    LET raw == IF "progress" \in DOMAIN args THEN args["progress"] ELSE [t |-> "undefined"]
        progressInput == IF raw.t = "object" THEN raw.obj ELSE EmptyObject
        scalarProgress == IF raw.t = "scalar" THEN raw.value ELSE Undefined
        startValue == toOptionalNumber(
            Coalesce(Get(progressInput, "startValue"),
                     Coalesce(Get(args, "start_value"), Get(args, "startValue"))),
            "progress.startValue")
        targetValue == toOptionalNumber(
            Coalesce(Get(progressInput, "targetValue"),
                     Coalesce(Get(args, "target_value"), Get(args, "targetValue"))),
            "progress.targetValue")
        currentValue == toOptionalNumber(
            Coalesce(Get(progressInput, "currentValue"),
                     Coalesce(Get(args, "current_value"), Get(args, "currentValue"))),
            "progress.currentValue")
        progress == toOptionalNumber(
            Coalesce4(Get(progressInput, "progress"), Get(args, "progress_value"),
                      Get(args, "progressPercent"), scalarProgress),
            "progress.progress")
    IN IF startValue.err # NoError THEN Throws(startValue.err)
       ELSE IF targetValue.err # NoError THEN Throws(targetValue.err)
       ELSE IF currentValue.err # NoError THEN Throws(currentValue.err)
       ELSE IF progress.err # NoError THEN Throws(progress.err)
       ELSE IF ~startValue.value.defined /\ ~targetValue.value.defined
               /\ ~currentValue.value.defined /\ ~progress.value.defined
       THEN Returns(UndefinedValue)
       ELSE Returns(ObjectValue(
                Field(startValue.value.defined, "startValue", startValue.value.number)
                @@ Field(targetValue.value.defined, "targetValue", targetValue.value.number)
                @@ Field(currentValue.value.defined, "currentValue", currentValue.value.number)
                @@ Field(progress.value.defined, "progress", progress.value.number)))

\* A value of a boolean-ish argument: its type and its literal.
JsBoolean(b) == [t |-> "boolean", lit |-> IF b THEN "true" ELSE "false"]
JsNumber(lit) == [t |-> "number", lit |-> lit]
JsString(lit) == [t |-> "string", lit |-> lit]
JsNull == [t |-> "null", lit |-> "null"]

\* a variant that coerces as Boolean(value) would and never refuses
toBooleanInputCoercing(value, fieldName) ==
    Returns([defined |-> TRUE, bool |-> value.lit \notin {"false", "0", "null", ""}])

toBooleanInput(value, fieldName) ==
    IF value.t = "boolean" THEN Returns([defined |-> TRUE, bool |-> value.lit = "true"])
    ELSE IF value = JsNumber("1") \/ value = JsString("1") \/ value = JsString("true")
    THEN Returns([defined |-> TRUE, bool |-> TRUE])
    ELSE IF value = JsNumber("0") \/ value = JsString("0") \/ value = JsString("false")
    THEN Returns([defined |-> TRUE, bool |-> FALSE])
    ELSE Throws(ValidationError("Invalid boolean for ", fieldName))

\* A string is the sequence of its pieces: a comma, a blank, or a word (a run
\* of other characters).  split(",") cuts it at the commas.
RECURSIVE SplitComma(_, _)
SplitComma(str, current) ==
    IF str = <<>> THEN <<current>>
    ELSE IF Head(str) = "," THEN <<current>> \o SplitComma(Tail(str), <<>>)
    ELSE SplitComma(Tail(str), Append(current, Head(str)))

\* a variant that keeps the segments that are empty after trimming
TrimWithoutFilter(list) == [i \in 1..Len(list) |-> Trim(list[i])]

RECURSIVE TrimAndFilter(_)
\* .map((item) => item.trim()).filter(Boolean)
TrimAndFilter(list) ==
    IF list = <<>> THEN <<>>
    ELSE (IF Trim(Head(list)) = <<>> THEN <<>> ELSE <<Trim(Head(list))>>)
         \o TrimAndFilter(Tail(list))

ListOfStrings(items) == [t |-> "array", items |-> items]
CommaString(str) == [t |-> "string", str |-> str]

\* the list, or undefined for a value that is neither an array nor a string
normalizeStringArray(value) ==
    IF value.t = "array" THEN [defined |-> TRUE, list |-> TrimAndFilter(value.items)]
    ELSE IF value.t = "string"
    THEN [defined |-> TRUE, list |-> TrimAndFilter(SplitComma(value.str, <<>>))]
    ELSE [defined |-> FALSE, list |-> <<>>]

----------------------------------------------------------------------------
(* Query maps and filter flattening                                         *)

\* A dotted query key is the sequence of its segments: "status.id" is
\* <<"status", "id">>.  A query value is a scalar, a boolean-ish value, or the
\* elements of an array joined with commas.
Scalar(v) == [t |-> "scalar", v |-> v]
Joined(items) == [t |-> "joined", items |-> items]
\* types.join(","), the elements being strings given by their pieces
JoinedList(items) == [t |-> "joinedList", items |-> items]

\* {...a, ...b}: the keys of b override those of a
Spread(a, b) == b @@ a

\* A filter object is the sequence of its entries <<key, value>> in insertion
\* order; a value is an object, an array or a scalar.
FilterObject(entries) == [t |-> "object", entries |-> entries]
FilterArray(items) == [t |-> "array", items |-> items]
FilterScalar(v) == [t |-> "scalar", v |-> v]

\* a variant that keeps the null and undefined leaves
RECURSIVE flattenEntriesKeepNull(_, _)
flattenEntriesKeepNull(entries, prefix) ==
    IF entries = <<>> THEN EmptyObject
    ELSE LET key == Head(entries)[1]
             raw == Head(entries)[2]
             nextKey == Append(prefix, key)
             here == IF raw.t = "scalar" THEN (nextKey :> Scalar(raw.v))
                     ELSE IF raw.t = "array" THEN (nextKey :> Joined(raw.items))
                     ELSE flattenEntriesKeepNull(raw.entries, nextKey)
         IN Spread(here, flattenEntriesKeepNull(Tail(entries), prefix))

RECURSIVE flattenEntries(_, _)
flattenEntries(entries, prefix) ==
    IF entries = <<>> THEN EmptyObject
    ELSE LET key == Head(entries)[1]
             raw == Head(entries)[2]
             nextKey == Append(prefix, key)
             here == IF raw.t = "scalar"
                     THEN (IF Nullish(raw.v) THEN EmptyObject
                           ELSE (nextKey :> Scalar(raw.v)))
                     ELSE IF raw.t = "array" THEN (nextKey :> Joined(raw.items))
                     ELSE flattenEntries(raw.entries, nextKey)
         IN Spread(here, flattenEntries(Tail(entries), prefix))

\* flattenFilters(args.filters): a value that is not an object flattens to {}
flattenFilters(args) ==
    IF "filters" \in DOMAIN args /\ args["filters"].t = "object"
    THEN flattenEntries(args["filters"].entries, <<>>)
    ELSE EmptyObject

\* {...(value ? {key: value} : {})} for a string-valued argument
QueryIf(key, value) == IF Truthy(value) THEN (key :> Scalar(value)) ELSE EmptyObject

\* {...(args.archived !== undefined ? {archived: args.archived} : {})}
ArchivedQuery(args) ==
    IF "archived" \in DOMAIN args THEN (<<"archived">> :> args["archived"]) ELSE EmptyObject

----------------------------------------------------------------------------
(* What a handler does up to its first request                              *)

\* await listWithLinks(path, {query, limit, pageSizeParam})
CallListWithLinks(path, query, limit, pageSizeParam) ==
    [err |-> NoError, op |-> "listWithLinks", path |-> path, query |-> query,
     limit |-> limit, pageSizeParam |-> pageSizeParam]

\* await listNotes({query, limit})
CallListNotes(query, limit) ==
    [err |-> NoError, op |-> "listNotes", path |-> <<"/notes">>, query |-> query,
     limit |-> limit]

\* await apiRequest(method, path, {query, body})
NoBody == [defined |-> FALSE]
Body(obj) == [defined |-> TRUE, obj |-> obj]
CallApiRequest(method, path, query, body) ==
    [err |-> NoError, op |-> "apiRequest", method |-> method, path |-> path,
     query |-> query, body |-> body]

Reject(text) == [err |-> ValidationError(text, ""), op |-> "throw"]
RejectWith(error) == [err |-> error, op |-> "throw"]

\* normalizeLimit(args.limit)
ArgLimit(args) == IF "limit" \in DOMAIN args THEN args["limit"] ELSE LimitUndefined
HandlerLimit(args) == normalizeLimit(ArgLimit(args), DEFAULT_LIMIT)

\* handlers that list a collection without filters
PlainList(path, args) == CallListWithLinks(path, EmptyObject, HandlerLimit(args), Undefined)

\* handlers that fetch one entity by args.id
GetById(prefix, args) ==
    IF ~Truthy(Get(args, "id")) THEN Reject("Missing required parameter: id")
    ELSE CallApiRequest("GET", <<prefix, Get(args, "id")>>, EmptyObject, NoBody)

----------------------------------------------------------------------------
(* Pieces of request bodies                                                 *)

\* Boolean(value) for a boolean-ish argument value
ToBoolean(value) ==
    IF value.t = "boolean" THEN value.lit = "true"
    ELSE IF value.t = "number" THEN value.lit # "0"
    ELSE IF value.t = "string" THEN value.lit # ""
    ELSE FALSE

\* {...(args[key] !== undefined ? {[key]: args[key]} : {})}
CopyIfDefined(args, key) == Field(Get(args, key) # Undefined, key, Get(args, key))

\* {...(args.archived !== undefined ? {archived: Boolean(args.archived)} : {})}
ArchivedField(args) ==
    IF "archived" \in DOMAIN args
    THEN [archived |-> ToBoolean(args["archived"])] ELSE EmptyObject

\* {...(value ? {[key]: value.obj} : {})} for a normalizer's result
ObjectField(key, value) == IF value.defined THEN (key :> value.obj) ELSE EmptyObject

\* {...(args.owner_email ? {owner: {email: args.owner_email}} : {})}
OwnerIfGiven(args) ==
    Field(Truthy(Get(args, "owner_email")), "owner",
          [email |-> Get(args, "owner_email")])

\* {...(args.owner_email !== undefined
\*      ? {owner: args.owner_email ? {email: args.owner_email} : null} : {})}
OwnerNull == [isNull |-> TRUE]
\* a variant that sends the owner only when owner_email is not empty
OwnerIfNotEmpty(args) ==
    Field(Truthy(Get(args, "owner_email")), "owner", [email |-> Get(args, "owner_email")])

OwnerIfDefined(args) ==
    Field(Get(args, "owner_email") # Undefined, "owner",
          IF Truthy(Get(args, "owner_email"))
          THEN [email |-> Get(args, "owner_email")] ELSE OwnerNull)

\* buildTimeframeInput(args.timeframe): the start and end that are not undefined
buildTimeframeInput(args) ==
    IF "timeframe" \notin DOMAIN args THEN UndefinedValue
    ELSE LET value == CopyIfDefined(args["timeframe"], "start")
                      @@ CopyIfDefined(args["timeframe"], "end")
         IN IF DOMAIN value # {} THEN ObjectValue(value) ELSE UndefinedValue

\* args.parent?.id ?? args["parent.id"] ?? args.parent_id
ObjectiveParentId(args) ==
    Coalesce(Get2(args, "parent", "id"),
             Coalesce(Get(args, "parent.id"), Get(args, "parent_id")))

\* ... ?? args.objective_id ?? args.objectiveId
KeyResultParentId(args) ==
    Coalesce(ObjectiveParentId(args),
             Coalesce(Get(args, "objective_id"), Get(args, "objectiveId")))

\* args.release_group_id ?? args.releaseGroup?.id ?? args["releaseGroup.id"]
ReleaseGroupId(args) ==
    Coalesce(Get(args, "release_group_id"),
             Coalesce(Get2(args, "releaseGroup", "id"), Get(args, "releaseGroup.id")))

\* args.feature_id ?? args.feature?.id ?? args["feature.id"]
AssignmentFeatureId(args) ==
    Coalesce(Get(args, "feature_id"),
             Coalesce(Get2(args, "feature", "id"), Get(args, "feature.id")))

\* args.release_id ?? args.release?.id ?? args["release.id"]
AssignmentReleaseId(args) ==
    Coalesce(Get(args, "release_id"),
             Coalesce(Get2(args, "release", "id"), Get(args, "release.id")))

\* a PATCH of {data}, or the error of an update that names no field
PatchOrReject(prefix, args, data) ==
    IF DOMAIN data = {} THEN Reject("No update fields provided.")
    ELSE CallApiRequest("PATCH", <<prefix, Get(args, "id")>>, EmptyObject,
                        Body([data |-> data]))

----------------------------------------------------------------------------
(* Features                                                                 *)

pbFeaturesList(args) ==
    LET filterMap == QueryIf(<<"status", "id">>, Get(args, "status_id"))
                     @@ QueryIf(<<"status", "name">>, Get(args, "status_name"))
                     @@ QueryIf(<<"parent", "id">>, Get(args, "parent_id"))
                     @@ QueryIf(<<"owner", "email">>, Get(args, "owner_email"))
                     @@ QueryIf(<<"note", "id">>, Get(args, "note_id"))
                     @@ ArchivedQuery(args)
        product == IF Truthy(Get(args, "product_id")) \/ Truthy(Get(args, "product.id"))
                      \/ Truthy(Get2(args, "product", "id"))
                   THEN (<<"parent", "id">> :>
                            Scalar(Coalesce(Get(args, "product_id"),
                                            Coalesce(Get(args, "product.id"),
                                                     Get2(args, "product", "id")))))
                   ELSE EmptyObject
    IN CallListWithLinks(<<"/features">>,
                         Spread(Spread(filterMap, product), flattenFilters(args)),
                         HandlerLimit(args), Undefined)

pbFeatureGet(args) == GetById("/features/", args)

pbFeatureCreate(args) ==
    IF ~Truthy(Get(args, "name")) \/ ~Truthy(Get(args, "description"))
    THEN Reject("Missing required parameters: name and description.")
    ELSE LET status == resolveStatusFromArgs(args)
             parent == normalizeParentInput(args, TRUE)
             timeframe == buildTimeframeInput(args)
         IN IF status.err # NoError THEN RejectWith(status.err)
            ELSE IF ~status.value.defined
            THEN Reject("Missing required status. Provide status.name, status.id, status_name, or status_id.")
            ELSE IF parent.err # NoError THEN RejectWith(parent.err)
            ELSE CallApiRequest("POST", <<"/features">>, EmptyObject,
                    Body([data |->
                        [name |-> Get(args, "name"),
                         description |-> Get(args, "description"),
                         type |-> IF ~Nullish(Get(args, "type")) THEN Get(args, "type")
                                  ELSE IF "feature" \in DOMAIN parent.value.obj
                                  THEN "subfeature" ELSE "feature",
                         status |-> status.value.obj,
                         parent |-> parent.value.obj]
                        @@ ArchivedField(args)
                        @@ OwnerIfGiven(args)
                        @@ ObjectField("timeframe", timeframe)]))

pbFeatureUpdate(args) ==
    IF ~Truthy(Get(args, "id")) THEN Reject("Missing required parameter: id")
    ELSE LET status == resolveStatusFromArgs(args)
             parent == normalizeParentInput(args, FALSE)
             timeframe == buildTimeframeInput(args)
         IN IF status.err # NoError THEN RejectWith(status.err)
            ELSE IF parent.err # NoError THEN RejectWith(parent.err)
            ELSE PatchOrReject("/features/", args,
                    CopyIfDefined(args, "name")
                    @@ CopyIfDefined(args, "description")
                    @@ ArchivedField(args)
                    @@ ObjectField("status", status.value)
                    @@ ObjectField("parent", parent.value)
                    @@ OwnerIfDefined(args)
                    @@ ObjectField("timeframe", timeframe))

pbFeatureDelete(args) ==
    IF ~Truthy(Get(args, "id")) THEN Reject("Missing required parameter: id")
    ELSE CallApiRequest("DELETE", <<"/features/", Get(args, "id")>>, EmptyObject, NoBody)

pbFeatureStatuses(args) == PlainList(<<"/feature-statuses">>, args)

pbComponentsList(args) == PlainList(<<"/components">>, args)

pbProductsList(args) == PlainList(<<"/products">>, args)

pbFeatureObjectives(args) ==
    IF ~Truthy(Get(args, "id")) THEN Reject("Missing required parameter: id")
    ELSE PlainList(<<"/features/", Get(args, "id"), "/links/objectives">>, args)

pbFeatureLinkObjective(args) ==
    LET featureId == Coalesce(Get(args, "id"), Get(args, "feature_id"))
        objectiveId == Coalesce(Get(args, "objective_id"), Get(args, "objectiveId"))
    IN IF ~Truthy(featureId) THEN Reject("Missing required parameter: id (feature ID)")
       ELSE IF ~Truthy(objectiveId) THEN Reject("Missing required parameter: objective_id")
       ELSE CallApiRequest("POST",
                <<"/features/", featureId, "/links/objectives/", objectiveId>>,
                EmptyObject, NoBody)

pbFeatureLinkInitiative(args) ==
    LET featureId == Coalesce(Get(args, "id"), Get(args, "feature_id"))
        initiativeId == Coalesce(Get(args, "initiative_id"), Get(args, "initiativeId"))
    IN IF ~Truthy(featureId) THEN Reject("Missing required parameter: id (feature ID)")
       ELSE IF ~Truthy(initiativeId) THEN Reject("Missing required parameter: initiative_id")
       ELSE CallApiRequest("POST",
                <<"/features/", featureId, "/links/initiatives/", initiativeId>>,
                EmptyObject, NoBody)

----------------------------------------------------------------------------
(* Notes                                                                    *)

\* args[key] for an argument that is a list of strings or one string
ListArg(args, key) == IF key \in DOMAIN args THEN args[key] ELSE [t |-> "undefined"]

pbNotesList(args) ==
    LET query == QueryIf(<<"term">>, Get(args, "term"))
                 @@ QueryIf(<<"featureId">>, Get(args, "featureId"))
                 @@ QueryIf(<<"companyId">>, Get(args, "companyId"))
                 @@ QueryIf(<<"ownerEmail">>, Get(args, "ownerEmail"))
                 @@ QueryIf(<<"source">>, Get(args, "source"))
                 @@ QueryIf(<<"anyTag">>, Get(args, "anyTag"))
                 @@ QueryIf(<<"allTags">>, Get(args, "allTags"))
                 @@ QueryIf(<<"dateFrom">>, Get(args, "dateFrom"))
                 @@ QueryIf(<<"dateTo">>, Get(args, "dateTo"))
                 @@ QueryIf(<<"createdFrom">>, Get(args, "createdFrom"))
                 @@ QueryIf(<<"createdTo">>, Get(args, "createdTo"))
                 @@ QueryIf(<<"updatedFrom">>, Get(args, "updatedFrom"))
                 @@ QueryIf(<<"updatedTo">>, Get(args, "updatedTo"))
                 @@ QueryIf(<<"last">>, Get(args, "last"))
                 @@ QueryIf(<<"pageCursor">>, Get(args, "pageCursor"))
    IN CallListNotes(Spread(query, flattenFilters(args)), HandlerLimit(args))

pbNoteGet(args) == GetById("/notes/", args)

pbNoteCreate(args) ==
    IF ~Truthy(Get(args, "title")) \/ ~Truthy(Get(args, "content"))
    THEN Reject("Missing required parameters: title and content.")
    ELSE LET raw == ListArg(args, "tags")
             tags == IF raw.t = "array" THEN [tags |-> raw.items]
                     ELSE IF raw.t = "string"
                     THEN [tags |-> TrimAndFilter(SplitComma(raw.str, <<>>))]
                     ELSE EmptyObject
         IN CallApiRequest("POST", <<"/notes">>, EmptyObject,
                Body([title |-> Get(args, "title"), content |-> Get(args, "content")]
                     @@ tags
                     @@ Field(Truthy(Get(args, "user_email")), "user",
                              [email |-> Get(args, "user_email")])))

pbNoteUpdate(args) ==
    IF ~Truthy(Get(args, "id")) THEN Reject("Missing required parameter: id")
    ELSE LET tags == normalizeStringArray(ListArg(args, "tags"))
         IN PatchOrReject("/notes/", args,
                CopyIfDefined(args, "title")
                @@ CopyIfDefined(args, "content")
                @@ Field(tags.defined, "tags", tags.list))

pbNoteLink(args) ==
    LET noteId == Coalesce(Get(args, "note_id"), Get(args, "noteId"))
        entityId == Coalesce(Get(args, "entity_id"), Get(args, "entityId"))
    IN IF ~Truthy(noteId) THEN Reject("Missing required parameter: note_id")
       ELSE IF ~Truthy(entityId) THEN Reject("Missing required parameter: entity_id")
       ELSE CallApiRequest("POST", <<"/notes/", noteId, "/links/", entityId>>,
                           EmptyObject, NoBody)

----------------------------------------------------------------------------
(* Objectives, key results, initiatives                                     *)

pbObjectivesList(args) ==
    LET query == ArchivedQuery(args)
                 @@ QueryIf(<<"owner", "email">>, Get(args, "owner_email"))
                 @@ QueryIf(<<"parent", "id">>, Get(args, "parent_id"))
                 @@ QueryIf(<<"status", "id">>, Get(args, "status_id"))
                 @@ QueryIf(<<"status", "name">>, Get(args, "status_name"))
    IN CallListWithLinks(<<"/objectives">>, Spread(query, flattenFilters(args)),
                         HandlerLimit(args), Undefined)

pbObjectiveGet(args) == GetById("/objectives/", args)

pbObjectiveCreate(args) ==
    IF ~Truthy(Get(args, "name")) THEN Reject("Missing required parameter: name")
    ELSE LET status == resolveStatusFromArgs(args)
             parentId == ObjectiveParentId(args)
             timeframe == buildDateTimeframeInput(args)
         IN IF status.err # NoError THEN RejectWith(status.err)
            ELSE IF timeframe.err # NoError THEN RejectWith(timeframe.err)
            ELSE CallApiRequest("POST", <<"/objectives">>, EmptyObject,
                    Body([data |->
                        [name |-> Get(args, "name")]
                        @@ CopyIfDefined(args, "description")
                        @@ ObjectField("status", status.value)
                        @@ Field(Truthy(parentId), "parent", [id |-> parentId])
                        @@ OwnerIfGiven(args)
                        @@ ObjectField("timeframe", timeframe.value)]))

pbObjectiveUpdate(args) ==
    IF ~Truthy(Get(args, "id")) THEN Reject("Missing required parameter: id")
    ELSE LET status == resolveStatusFromArgs(args)
             parentId == ObjectiveParentId(args)
             timeframe == buildDateTimeframeInput(args)
         IN IF status.err # NoError THEN RejectWith(status.err)
            ELSE IF timeframe.err # NoError THEN RejectWith(timeframe.err)
            ELSE PatchOrReject("/objectives/", args,
                    CopyIfDefined(args, "name")
                    @@ CopyIfDefined(args, "description")
                    @@ ObjectField("status", status.value)
                    @@ Field(Truthy(parentId), "parent", [id |-> parentId])
                    @@ OwnerIfDefined(args)
                    @@ ObjectField("timeframe", timeframe.value)
                    @@ ArchivedField(args))

pbKeyResultsList(args) ==
    LET query == QueryIf(<<"parent", "id">>, KeyResultParentId(args))
                 @@ QueryIf(<<"status", "id">>, Get(args, "status_id"))
                 @@ QueryIf(<<"status", "name">>, Get(args, "status_name"))
                 @@ ArchivedQuery(args)
                 @@ QueryIf(<<"owner", "email">>, Get(args, "owner_email"))
    IN CallListWithLinks(<<"/key-results">>, Spread(query, flattenFilters(args)),
                         HandlerLimit(args), Undefined)

pbKeyResultGet(args) == GetById("/key-results/", args)

pbKeyResultCreate(args) ==
    LET parentId == KeyResultParentId(args)
    IN IF ~Truthy(parentId) \/ ~Truthy(Get(args, "name"))
       THEN Reject("Missing required parameters: objective_id (or parent_id) and name.")
       ELSE LET status == resolveStatusFromArgs(args)
                timeframe == buildDateTimeframeInput(args)
                progress == buildProgressInput(args)
            IN IF status.err # NoError THEN RejectWith(status.err)
               ELSE IF timeframe.err # NoError THEN RejectWith(timeframe.err)
               ELSE IF progress.err # NoError THEN RejectWith(progress.err)
               ELSE CallApiRequest("POST", <<"/key-results">>, EmptyObject,
                       Body([data |->
                           [name |-> Get(args, "name"), parent |-> [id |-> parentId]]
                           @@ CopyIfDefined(args, "description")
                           @@ OwnerIfGiven(args)
                           @@ ObjectField("status", status.value)
                           @@ ObjectField("progress", progress.value)
                           @@ ObjectField("timeframe", timeframe.value)]))

pbKeyResultUpdate(args) ==
    IF ~Truthy(Get(args, "id")) THEN Reject("Missing required parameter: id")
    ELSE LET parentId == KeyResultParentId(args)
             status == resolveStatusFromArgs(args)
             timeframe == buildDateTimeframeInput(args)
             progress == buildProgressInput(args)
         IN IF status.err # NoError THEN RejectWith(status.err)
            ELSE IF timeframe.err # NoError THEN RejectWith(timeframe.err)
            ELSE IF progress.err # NoError THEN RejectWith(progress.err)
            ELSE PatchOrReject("/key-results/", args,
                    CopyIfDefined(args, "name")
                    @@ CopyIfDefined(args, "description")
                    @@ OwnerIfDefined(args)
                    @@ ObjectField("status", status.value)
                    @@ Field(Truthy(parentId), "parent", [id |-> parentId])
                    @@ ObjectField("progress", progress.value)
                    @@ ObjectField("timeframe", timeframe.value)
                    @@ ArchivedField(args))

pbInitiativesList(args) ==
    LET query == ArchivedQuery(args)
                 @@ QueryIf(<<"owner", "email">>, Get(args, "owner_email"))
                 @@ QueryIf(<<"status", "id">>, Get(args, "status_id"))
                 @@ QueryIf(<<"status", "name">>, Get(args, "status_name"))
    IN CallListWithLinks(<<"/initiatives">>, Spread(query, flattenFilters(args)),
                         HandlerLimit(args), Undefined)

pbInitiativeGet(args) == GetById("/initiatives/", args)

pbInitiativeCreate(args) ==
    IF ~Truthy(Get(args, "name")) THEN Reject("Missing required parameter: name")
    ELSE LET status == resolveStatusFromArgs(args)
             timeframe == buildDateTimeframeInput(args)
         IN IF status.err # NoError THEN RejectWith(status.err)
            ELSE IF timeframe.err # NoError THEN RejectWith(timeframe.err)
            ELSE CallApiRequest("POST", <<"/initiatives">>, EmptyObject,
                    Body([data |->
                        [name |-> Get(args, "name")]
                        @@ CopyIfDefined(args, "description")
                        @@ ObjectField("status", status.value)
                        @@ OwnerIfGiven(args)
                        @@ ObjectField("timeframe", timeframe.value)]))

pbInitiativeUpdate(args) ==
    IF ~Truthy(Get(args, "id")) THEN Reject("Missing required parameter: id")
    ELSE LET status == resolveStatusFromArgs(args)
             timeframe == buildDateTimeframeInput(args)
         IN IF status.err # NoError THEN RejectWith(status.err)
            ELSE IF timeframe.err # NoError THEN RejectWith(timeframe.err)
            ELSE PatchOrReject("/initiatives/", args,
                    CopyIfDefined(args, "name")
                    @@ CopyIfDefined(args, "description")
                    @@ ObjectField("status", status.value)
                    @@ OwnerIfDefined(args)
                    @@ ObjectField("timeframe", timeframe.value)
                    @@ ArchivedField(args))

----------------------------------------------------------------------------
(* Releases, assignments, companies, users, custom fields                   *)

pbReleasesList(args) ==
    CallListWithLinks(<<"/releases">>,
        Spread(QueryIf(<<"releaseGroup", "id">>, Get(args, "release_group_id")),
               flattenFilters(args)),
        HandlerLimit(args), Undefined)

pbReleaseGet(args) == GetById("/releases/", args)

pbReleaseCreate(args) ==
    IF ~Truthy(Get(args, "name")) \/ ~Truthy(Get(args, "description"))
    THEN Reject("Missing required parameters: name and description.")
    ELSE IF ~Truthy(ReleaseGroupId(args))
    THEN Reject("Missing required parameter: release_group_id")
    ELSE LET timeframe == buildDateTimeframeInput(args)
         IN IF timeframe.err # NoError THEN RejectWith(timeframe.err)
            ELSE CallApiRequest("POST", <<"/releases">>, EmptyObject,
                    Body([data |->
                        [name |-> Get(args, "name"),
                         description |-> Get(args, "description"),
                         releaseGroup |-> [id |-> ReleaseGroupId(args)]]
                        @@ Field(Truthy(Get(args, "state")), "state", Get(args, "state"))
                        @@ ObjectField("timeframe", timeframe.value)]))

pbReleaseUpdate(args) ==
    IF ~Truthy(Get(args, "id")) THEN Reject("Missing required parameter: id")
    ELSE LET timeframe == buildDateTimeframeInput(args)
         IN IF timeframe.err # NoError THEN RejectWith(timeframe.err)
            ELSE PatchOrReject("/releases/", args,
                    CopyIfDefined(args, "name")
                    @@ CopyIfDefined(args, "description")
                    @@ ArchivedField(args)
                    @@ Field(Truthy(ReleaseGroupId(args)), "releaseGroup",
                             [id |-> ReleaseGroupId(args)])
                    @@ Field(Truthy(Get(args, "state")), "state", Get(args, "state"))
                    @@ ObjectField("timeframe", timeframe.value))

pbReleaseGroupsList(args) == PlainList(<<"/release-groups">>, args)

pbFeatureReleaseList(args) ==
    LET query == QueryIf(<<"feature", "id">>, AssignmentFeatureId(args))
                 @@ QueryIf(<<"release", "id">>, AssignmentReleaseId(args))
                 @@ QueryIf(<<"release", "state">>, Get(args, "release_state"))
                 @@ QueryIf(<<"release", "timeframe", "endDate", "from">>,
                            Get(args, "end_date_from"))
                 @@ QueryIf(<<"release", "timeframe", "endDate", "to">>,
                            Get(args, "end_date_to"))
    IN CallListWithLinks(<<"/feature-release-assignments">>,
                         Spread(query, flattenFilters(args)),
                         HandlerLimit(args), Undefined)

pbFeatureReleaseAssign(args) ==
    LET featureId == AssignmentFeatureId(args)
        releaseId == AssignmentReleaseId(args)
    IN IF ~Truthy(featureId) THEN Reject("Missing required parameter: feature_id")
       ELSE IF ~Truthy(releaseId) THEN Reject("Missing required parameter: release_id")
       ELSE IF "assigned" \notin DOMAIN args
       THEN Reject("Missing required parameter: assigned")
       ELSE LET assigned == toBooleanInput(args["assigned"], "assigned")
            IN IF assigned.err # NoError THEN RejectWith(assigned.err)
               ELSE CallApiRequest("PUT", <<"/feature-release-assignments/assignment">>,
                       (<<"feature", "id">> :> Scalar(featureId))
                       @@ (<<"release", "id">> :> Scalar(releaseId)),
                       Body([data |-> [assigned |-> assigned.value.bool]]))

pbCompaniesList(args) ==
    LET query == QueryIf(<<"term">>, Get(args, "term"))
                 @@ (IF "hasNotes" \in DOMAIN args
                     THEN (<<"hasNotes">> :> args["hasNotes"]) ELSE EmptyObject)
                 @@ QueryIf(<<"featureId">>, Get(args, "featureId"))
                 @@ QueryIf(<<"pageCursor">>, Get(args, "pageCursor"))
    IN CallListWithLinks(<<"/companies">>, Spread(query, flattenFilters(args)),
                         HandlerLimit(args), "pageLimit")

pbUsersList(args) == PlainList(<<"/users">>, args)

allowedTypes ==
    {<<"text">>, <<"custom-description">>, <<"number">>, <<"dropdown">>,
     <<"multi-dropdown">>, <<"member">>}

pbCustomFieldsList(args) ==
    LET limit == HandlerLimit(args)
        types == normalizeStringArray(ListArg(args, "type"))
    IN IF ~types.defined \/ Len(types.list) = 0
       THEN Reject("Missing required parameter: type (one or more custom field types).")
       ELSE IF \E i \in 1..Len(types.list) : types.list[i] \notin allowedTypes
       THEN Reject("Invalid custom field type(s): ")
       ELSE CallListWithLinks(<<"/hierarchy-entities/custom-fields">>,
                              (<<"type">> :> JoinedList(types.list)), limit, Undefined)

pbCustomFieldValueGet(args) ==
    LET customFieldId ==
            Coalesce(Get(args, "custom_field_id"),
                     Coalesce(Get2(args, "customField", "id"), Get(args, "customField.id")))
        hierarchyEntityId ==
            Coalesce(Get(args, "hierarchy_entity_id"),
                     Coalesce(Get2(args, "hierarchyEntity", "id"),
                              Get(args, "hierarchyEntity.id")))
    IN IF ~Truthy(customFieldId)
       THEN Reject("Missing required parameter: custom_field_id")
       ELSE IF ~Truthy(hierarchyEntityId)
       THEN Reject("Missing required parameter: hierarchy_entity_id")
       ELSE CallApiRequest("GET", <<"/hierarchy-entities/custom-fields-values/value">>,
                (<<"customField", "id">> :> Scalar(customFieldId))
                @@ (<<"hierarchyEntity", "id">> :> Scalar(hierarchyEntityId)),
                NoBody)

\* pbUserCurrent takes no argument: its first request is GET /user
pbUserCurrent(args) ==
    [err |-> NoError, op |-> "pbUserCurrent", method |-> "GET", path |-> <<"/user">>,
     query |-> EmptyObject, body |-> NoBody]

----------------------------------------------------------------------------
(* The tool catalog and the handler lookup                                  *)

RegisteredTools ==
    {"pb_features_list", "pb_feature_get", "pb_feature_create", "pb_feature_update",
     "pb_feature_delete", "pb_feature_statuses", "pb_components_list", "pb_notes_list",
     "pb_note_get", "pb_note_create", "pb_note_update", "pb_note_link",
     "pb_products_list", "pb_objectives_list", "pb_objective_get", "pb_objective_create",
     "pb_objective_update", "pb_key_results_list", "pb_key_result_get",
     "pb_key_result_create", "pb_key_result_update", "pb_initiatives_list",
     "pb_initiative_get", "pb_initiative_create", "pb_initiative_update",
     "pb_releases_list", "pb_release_get", "pb_release_create", "pb_release_update",
     "pb_release_groups_list", "pb_feature_release_list", "pb_feature_release_assign",
     "pb_feature_objectives", "pb_feature_link_objective", "pb_feature_link_initiative",
     "pb_companies_list", "pb_users_list", "pb_custom_fields_list",
     "pb_custom_field_value_get", "pb_user_current"}

\* The properties every object literal inherits from Object.prototype.
ObjectPrototypeKeys ==
    {"constructor", "toString", "toLocaleString", "valueOf", "hasOwnProperty",
     "isPrototypeOf", "propertyIsEnumerable", "__proto__", "__defineGetter__",
     "__defineSetter__", "__lookupGetter__", "__lookupSetter__"}

\* toolHandlers[toolName]: an own property (a handler), a property inherited
\* from Object.prototype, or undefined
toolHandlers(name) ==
    IF name \in RegisteredTools THEN [found |-> "own", key |-> name]
    ELSE IF name \in ObjectPrototypeKeys THEN [found |-> "inherited", key |-> name]
    ELSE [found |-> "undefined", key |-> name]

\* `${toolName}`
Interpolate(name) == IF name = Undefined THEN "undefined" ELSE name

\* handler(toolArgs) for a registered handler, up to its first await
RunHandler(name, args) ==
    CASE name = "pb_features_list" -> pbFeaturesList(args)
      [] name = "pb_feature_get" -> pbFeatureGet(args)
      [] name = "pb_feature_create" -> pbFeatureCreate(args)
      [] name = "pb_feature_update" -> pbFeatureUpdate(args)
      [] name = "pb_feature_delete" -> pbFeatureDelete(args)
      [] name = "pb_feature_statuses" -> pbFeatureStatuses(args)
      [] name = "pb_components_list" -> pbComponentsList(args)
      [] name = "pb_notes_list" -> pbNotesList(args)
      [] name = "pb_note_get" -> pbNoteGet(args)
      [] name = "pb_note_create" -> pbNoteCreate(args)
      [] name = "pb_note_update" -> pbNoteUpdate(args)
      [] name = "pb_note_link" -> pbNoteLink(args)
      [] name = "pb_products_list" -> pbProductsList(args)
      [] name = "pb_objectives_list" -> pbObjectivesList(args)
      [] name = "pb_objective_get" -> pbObjectiveGet(args)
      [] name = "pb_objective_create" -> pbObjectiveCreate(args)
      [] name = "pb_objective_update" -> pbObjectiveUpdate(args)
      [] name = "pb_key_results_list" -> pbKeyResultsList(args)
      [] name = "pb_key_result_get" -> pbKeyResultGet(args)
      [] name = "pb_key_result_create" -> pbKeyResultCreate(args)
      [] name = "pb_key_result_update" -> pbKeyResultUpdate(args)
      [] name = "pb_initiatives_list" -> pbInitiativesList(args)
      [] name = "pb_initiative_get" -> pbInitiativeGet(args)
      [] name = "pb_initiative_create" -> pbInitiativeCreate(args)
      [] name = "pb_initiative_update" -> pbInitiativeUpdate(args)
      [] name = "pb_releases_list" -> pbReleasesList(args)
      [] name = "pb_release_get" -> pbReleaseGet(args)
      [] name = "pb_release_create" -> pbReleaseCreate(args)
      [] name = "pb_release_update" -> pbReleaseUpdate(args)
      [] name = "pb_release_groups_list" -> pbReleaseGroupsList(args)
      [] name = "pb_feature_release_list" -> pbFeatureReleaseList(args)
      [] name = "pb_feature_release_assign" -> pbFeatureReleaseAssign(args)
      [] name = "pb_feature_objectives" -> pbFeatureObjectives(args)
      [] name = "pb_feature_link_objective" -> pbFeatureLinkObjective(args)
      [] name = "pb_feature_link_initiative" -> pbFeatureLinkInitiative(args)
      [] name = "pb_companies_list" -> pbCompaniesList(args)
      [] name = "pb_users_list" -> pbUsersList(args)
      [] name = "pb_custom_fields_list" -> pbCustomFieldsList(args)
      [] name = "pb_custom_field_value_get" -> pbCustomFieldValueGet(args)
      [] name = "pb_user_current" -> pbUserCurrent(args)

\* handler(toolArgs) for a property inherited from Object.prototype, called
\* as a plain function (this is undefined in a module): what it returns, or
\* the TypeError it throws
RunInherited(name, args) ==
    IF name = "constructor" THEN [threw |-> FALSE, data |-> [object |-> args]]
    ELSE IF name = "toString"
    THEN [threw |-> FALSE, data |-> [string |-> "[object Undefined]"]]
    ELSE IF name = "__proto__"
    THEN [threw |-> TRUE, error |-> RuntimeError("handler is not a function")]
    ELSE [threw |-> TRUE,
          error |-> RuntimeError("Cannot convert undefined or null to object")]

----------------------------------------------------------------------------
(* HTTP client adapter                                                      *)

\* value === undefined || value === null || value === ""
EmptyQueryValue(value) ==
    IF value.t = "scalar" THEN value.v \in {Undefined, Null, ""}
    ELSE IF value.t = "joined" THEN value.items = <<>> \/ value.items = <<"">>
    ELSE IF value.t = "joinedList" THEN value.items = <<>>
    ELSE IF value.t = "null" THEN TRUE
    ELSE IF value.t = "string" THEN value.lit = ""
    ELSE FALSE

\* String(value)
StringOf(value) ==
    IF value.t = "scalar" THEN [string |-> value.v]
    ELSE IF value.t \in {"joined", "joinedList"} THEN [commaJoined |-> value.items]
    ELSE IF value.t = "integer" THEN [digits |-> value.n]
    ELSE [string |-> value.lit]

\* a variant that skips every falsy value, false and 0 among them
applyQueryParamsOfTruthy(query) ==
    [key \in {k \in DOMAIN query :
                /\ ~EmptyQueryValue(query[k])
                /\ ~(query[k].t = "boolean" /\ query[k].lit = "false")
                /\ ~(query[k].t = "number" /\ query[k].lit = "0")} |-> StringOf(query[key])]

\* the search parameters applyQueryParams(url, query) sets
applyQueryParams(query) ==
    [key \in {k \in DOMAIN query : ~EmptyQueryValue(query[k])} |-> StringOf(query[key])]

\* the fetch of apiRequest(method, path, {query, body}) for a relative path
RelativeRequest(method, path, query, body) ==
    [method |-> method, url |-> BaseUrl(path), search |-> applyQueryParams(query),
     contentType |-> body.defined, body |-> body]

\* the fetch of apiRequest("GET", null, {absoluteUrl}): no query is applied
AbsoluteRequest(url) ==
    [method |-> "GET", url |-> url, search |-> EmptyObject,
     contentType |-> FALSE, body |-> NoBody]

\* An error payload is the object the body parsed to, or undefined when the
\* body was empty or was not JSON (rawText is then the fallback text).
BlankStrings == {"", " "}

ErrorString(s) == [t |-> "string", str |-> s]
ErrorObject(obj) == [t |-> "object", obj |-> obj]

extractErrorMessage(payload, fallbackMessage) ==
    IF ~payload.defined THEN fallbackMessage
    ELSE IF "message" \in DOMAIN payload.obj /\ payload.obj["message"] \notin BlankStrings
    THEN [text |-> payload.obj["message"], arg |-> ""]
    ELSE IF "error" \in DOMAIN payload.obj /\ "message" \in DOMAIN payload.obj["error"]
    THEN [text |-> payload.obj["error"]["message"], arg |-> ""]
    ELSE IF "errors" \in DOMAIN payload.obj /\ Len(payload.obj["errors"]) > 0
    THEN LET first == payload.obj["errors"][1]
         IN IF first.t = "string" THEN [text |-> first.str, arg |-> ""]
            ELSE IF "message" \in DOMAIN first.obj
            THEN [text |-> first.obj["message"], arg |-> ""]
            ELSE IF "detail" \in DOMAIN first.obj
            THEN [text |-> first.obj["detail"], arg |-> ""]
            ELSE fallbackMessage
    ELSE fallbackMessage

\* the retry-after header: absent, or a string that Number() maps to a finite
\* number or to NaN
NumericHeaders == {"0", "3"}
HeaderNumber(header) == IF header = "0" THEN 0 ELSE 3

buildApiError(response) ==
    LET status == response.status
        retryAfterHeader == response.retryAfter
        fallback == IF Truthy(response.rawText)
                    THEN [text |-> response.rawText, arg |-> ""]
                    ELSE [text |-> "Productboard API returned HTTP ", status |-> status]
        extracted == extractErrorMessage(response.payload, fallback)
        message ==
            IF status = 401
            THEN [text |-> "Authentication failed. Check your Productboard API token.",
                  arg |-> ""]
            ELSE IF status = 403
            THEN [text |-> "Access denied by Productboard API. Verify token permissions.",
                  arg |-> ""]
            ELSE IF status = 404
            THEN [text |-> "Requested Productboard resource was not found.", arg |-> ""]
            ELSE IF status = 429
            THEN [text |-> "Productboard API rate limit reached. Please retry shortly.",
                  arg |-> ""]
            ELSE extracted
    IN [kind |-> "remote", message |-> message, status |-> status,
        details |-> IF response.payload.defined THEN "<payload>"
                    ELSE IF Truthy(response.rawText) THEN response.rawText
                    ELSE Undefined,
        retryAfter |-> IF Truthy(retryAfterHeader) /\ retryAfterHeader \in NumericHeaders
                       THEN RetryAfter(HeaderNumber(retryAfterHeader)) ELSE NoRetry]

\* the error apiRequest throws when fetch rejects
NetworkError ==
    ProductboardApiError("transport", "Network error while contacting Productboard API.",
                         "", NoStatus, "<error.message>", NoRetry)

----------------------------------------------------------------------------
(* Pagination walkers                                                       *)

\* pageItems.slice(0, remaining)
\* a variant that appends the whole page
SlicePageWhole(pageItems, remaining) == pageItems

\* pageItems.slice(0, remaining)
SlicePage(pageItems, remaining) == SubSeq(pageItems, 1, Min(remaining, Len(pageItems)))

\* a variant that reports has_more from the count alone
HasMoreAtQuota(continuation, count, maxItems) == count >= maxItems

\* Boolean(candidateNext) && items.length >= maxItems
HasMore(continuation, count, maxItems) == Truthy(continuation) /\ count >= maxItems

\* a variant that goes round the loop whenever a continuation is present
StopsWithoutContinuation(continuation, count, maxItems) == ~Truthy(continuation)

\* if (!candidateNext || items.length >= maxItems) return ...
StopsAfterPage(continuation, count, maxItems) ==
    ~Truthy(continuation) \/ count >= maxItems

\* Array.isArray(payload?.data) ? payload.data : []
PageItemsOf(payload) == IF payload.isArray THEN payload.data ELSE <<>>

\* a variant that sets the page size over the one the caller gave
FirstQueryOverriding(query, pageSizeParam, maxItems) ==
    IF pageSizeParam # Undefined
    THEN Spread(query, <<pageSizeParam>> :> [t |-> "integer", n |-> Min(MAX_PAGE_SIZE, maxItems)])
    ELSE query

\* the query of the first request of listWithLinks
FirstQuery(query, pageSizeParam, maxItems) ==
    IF pageSizeParam # Undefined
       /\ (<<pageSizeParam>> \notin DOMAIN query
           \/ (query[<<pageSizeParam>>].t = "scalar" /\ Nullish(query[<<pageSizeParam>>].v)))
    THEN Spread(query, <<pageSizeParam>> :> [t |-> "integer", n |-> Min(MAX_PAGE_SIZE, maxItems)])
    ELSE query

\* listWithLinks at its entry: maxItems, the empty accumulator, nextUrl = null
EnterListWithLinks(plan) ==
    LET maxItems == normalizeLimit(Num(plan.limit), DEFAULT_LIMIT)
    IN [fn |-> "listWithLinks", path |-> plan.path, limit |-> plan.limit,
        maxItems |-> maxItems, items |-> <<>>, nextUrl |-> NoUrl,
        firstQuery |-> FirstQuery(plan.query, plan.pageSizeParam, maxItems)]

\* let cursor = query.pageCursor
InitialCursor(query) ==
    IF <<"pageCursor">> \in DOMAIN query /\ query[<<"pageCursor">>].t = "scalar"
    THEN query[<<"pageCursor">>].v ELSE Undefined

EnterListNotes(plan) ==
    [fn |-> "listNotes", path |-> plan.path, limit |-> plan.limit,
     maxItems |-> normalizeLimit(Num(plan.limit), DEFAULT_LIMIT), items |-> <<>>,
     cursor |-> InitialCursor(plan.query), query |-> plan.query]

\* a variant that asks every page for min(100, maxItems)
PageQueryOfMaximum(f) ==
    LET withLimit == Spread(f.query, <<"pageLimit">> :>
                            [t |-> "integer", n |-> Min(MAX_PAGE_SIZE, f.maxItems)])
    IN IF Truthy(f.cursor)
       THEN Spread(withLimit, <<"pageCursor">> :> Scalar(f.cursor))
       ELSE [k \in DOMAIN withLimit \ {<<"pageCursor">>} |-> withLimit[k]]

\* the query of one request of listNotes
PageQuery(f) ==
    LET remaining == f.maxItems - Len(f.items)
        pageLimit == Min(MAX_PAGE_SIZE, remaining)
        withLimit == Spread(f.query, <<"pageLimit">> :> [t |-> "integer", n |-> pageLimit])
    IN IF Truthy(f.cursor)
       THEN Spread(withLimit, <<"pageCursor">> :> Scalar(f.cursor))
       ELSE [k \in DOMAIN withLimit \ {<<"pageCursor">>} |-> withLimit[k]]

\* the value a walker returns, spread into {endpoint, ...result} by its handler
LinksResult(f, items, has_more, next) ==
    [endpoint |-> f.path, items |-> items, count |-> Len(items), has_more |-> has_more,
     next |-> next]

NotesResult(f, items, has_more, next_cursor) ==
    [endpoint |-> f.path, items |-> items, count |-> Len(items), has_more |-> has_more,
     next_cursor |-> next_cursor]

----------------------------------------------------------------------------
(* The invocation as a state machine                                        *)

NoOutcome == [keys |-> {}]

\* the dispatch handler returns asJsonResult(result)
Return(data, f) ==
    /\ pc' = "done"
    /\ outcome' = asJsonResult(data)
    /\ frame' = f
    /\ UNCHANGED <<requests, caught>>

\* a variant whose catch block converts only the errors that carry a status
\* and lets the others go on to the host, which then gets no envelope
CatchStatusErrorsOnly(error) ==
    IF error.status = NoStatus THEN NoOutcome ELSE asErrorResult(error)

\* catch (error) { logError(...); return asErrorResult(error); }
CatchAtDispatch(error) == asErrorResult(error)

\* the handler throws: the dispatch handler catches and returns the envelope
Throw(error, f) ==
    /\ pc' = "done"
    /\ caught' = error
    /\ outcome' = CatchAtDispatch(error)
    /\ frame' = f
    /\ UNCHANGED requests

\* apiRequest up to its await of fetch: getApiToken throws, or the request
\* goes out and the handler is suspended with the locals f
Fetch(request, f) ==
    LET credential == getApiToken(envToken)
    IN IF credential.err # NoError
       THEN Throw(credential.err, f)
       ELSE /\ pc' = "await"
            /\ requests' = Append(requests,
                   request @@ [authorization |-> <<"Bearer", credential.token>>])
            /\ frame' = f
            /\ UNCHANGED <<caught, outcome>>

\* one turn of the while loop of listWithLinks, from its test to its await
LoopListWithLinks(f) ==
    IF Len(f.items) < f.maxItems
    THEN IF f.nextUrl # NoUrl
         THEN Fetch(AbsoluteRequest(f.nextUrl), f)
         ELSE Fetch(RelativeRequest("GET", f.path, f.firstQuery, NoBody), f)
    ELSE Return(LinksResult(f, f.items, FALSE, Null), f)

\* one turn of the while loop of listNotes, from its test to its await
LoopListNotes(f) ==
    IF Len(f.items) < f.maxItems
    THEN Fetch(RelativeRequest("GET", f.path, PageQuery(f), NoBody), f)
    ELSE Return(NotesResult(f, f.items, FALSE, Null), f)

----------------------------------------------------------------------------
(* Inputs                                                                   *)

Tokens ==
    {UnsetToken, TokenOf(<<>>), TokenOf(<<" ">>), TokenOf(<<" ", " ">>),
     TokenOf(<<" ", "t", " ">>)}

SmallLimits == {Num(k) : k \in 1..MaxSmallLimit}

\* limits of the walks that are followed: absent, fractional below one, small
\* integers, and one above two full pages
WalkLimits == {LimitUndefined, NumFrac(0), Num(250)} \cup SmallLimits

\* limits whose walk differs from another's only in the argument
OtherLimits ==
    {LimitNull, LimitNaN, LimitInfinity, Num(-1), Num(0), NumFrac(-1),
     NumFrac(MaxSmallLimit), Num(LIMIT_CEILING), Num(LIMIT_CEILING + 1)}

LimitArgs(limits) ==
    {IF l = LimitUndefined THEN EmptyObject ELSE [limit |-> l] : l \in limits}

IdArgs == {EmptyObject, [id |-> ""], [id |-> "e1"]}

InlineStatuses ==
    {EmptyObject, [status |-> StatusNull], [status |-> StatusNumber],
     [status |-> StatusString("")], [status |-> StatusString("Done")],
     [status |-> StatusObject(EmptyObject)],
     [status |-> StatusObject([id |-> "s1"])],
     [status |-> StatusObject([name |-> "Done"])],
     [status |-> StatusObject([id |-> "s1", name |-> "Done"])],
     [status |-> StatusObject([id |-> "", name |-> "Done"])],
     [status |-> StatusObject([id |-> "s1", name |-> ""])]}

StatusArgs ==
    {inline @@ Field(id # Undefined, "status_id", id)
            @@ Field(name # Undefined, "status_name", name) :
        inline \in InlineStatuses,
        id \in {Undefined, "", "s2"},
        name \in {Undefined, "", "Done"}}

ParentArgs ==
    {EmptyObject, [product_id |-> "p1"], [component_id |-> "c1"],
     [parent_feature_id |-> "f1"], [product_id |-> "p1", component_id |-> "c1"],
     [parent |-> [product |-> [id |-> "p1"]]], [component |-> [id |-> "c1"]],
     ("feature.id" :> "f1"), [product_id |-> "", parent_feature_id |-> "f1"],
     ("product.id" :> "p1"), [feature |-> [id |-> "f1"]],
     [parent |-> [feature |-> [id |-> "f1"]], component_id |-> "c1"],
     [product_id |-> "p1", component_id |-> "c1", parent_feature_id |-> "f1"],
     [product |-> [id |-> ""], product_id |-> "p1"],
     [parent |-> [component |-> [id |-> ""]], component_id |-> "c1"]}

TimeframeArgs ==
    {EmptyObject, [start_date |-> "2024-01-01"], [endDate |-> "2024-03-31"],
     [start_date |-> "2024-01-01", end_date |-> "2024-03-31"],
     [granularity |-> "month"],
     [timeframe |-> [startDate |-> "2024-01-01", endDate |-> "2024-03-31"]],
     [timeframe |-> [start |-> "2024-01-01"]],
     [start_date |-> "", end_date |-> "2024-03-31"],
     [start_date |-> "", end_date |-> "", granularity |-> ""],
     [startDate |-> Null, granularity |-> "month"],
     [timeframe |-> [start |-> "2024-01-01", end |-> "2024-03-31",
                     granularity |-> "quarter"]]}

ProgressArgs ==
    {EmptyObject, [progress |-> ProgressScalar("40")], [progress |-> ProgressScalar("half")],
     [progress |-> ProgressObject([startValue |-> "0", targetValue |-> "100"])],
     [current_value |-> "5"], [target_value |-> "many"], [start_value |-> ""],
     [progress |-> ProgressObject([startValue |-> "0"]), start_value |-> "5"],
     [progress |-> ProgressObject([startValue |-> ""]), start_value |-> "5"],
     [start_value |-> "5", startValue |-> "40"], [targetValue |-> "100"],
     [progress |-> ProgressObject([progress |-> "40", currentValue |-> "5"]),
      progress_value |-> "100"],
     [progress_value |-> "40", progressPercent |-> "5"],
     [progressPercent |-> "5", progress |-> ProgressScalar("40")],
     [progress |-> ProgressObject([currentValue |-> "half"])],
     [start_value |-> "many", currentValue |-> "some"]}

AssignedArgs ==
    {EmptyObject, [assigned |-> JsBoolean(TRUE)], [assigned |-> JsBoolean(FALSE)],
     [assigned |-> JsNumber("1")], [assigned |-> JsNumber("0")],
     [assigned |-> JsNumber("2")], [assigned |-> JsString("true")],
     [assigned |-> JsString("false")], [assigned |-> JsString("TRUE")],
     [assigned |-> JsString("yes")], [assigned |-> JsNull],
     [assigned |-> JsString("1")], [assigned |-> JsString("0")],
     [assigned |-> JsString("")]}

\* tags as a comma-separated string ("a, b ,,c", "b,a,b", "", " , ") or as
\* a sequence (with duplicates, with blanks around and inside, empty)
TagValues ==
    {CommaString(<<"a", ",", " ", "b", " ", ",", ",", "c">>),
     CommaString(<<"b", ",", "a", ",", "b">>),
     CommaString(<<>>),
     CommaString(<<" ", ",", " ">>),
     ListOfStrings(<<<<"a">>, <<"b">>, <<"c">>>>),
     ListOfStrings(<<<<"b">>, <<"a">>, <<"b">>>>),
     ListOfStrings(<<<<"a">>, <<" ", "b">>, <<" ">>, <<"a", " ", "b">>>>),
     ListOfStrings(<<>>)}

TypeArgs ==
    {EmptyObject, [type |-> CommaString(<<>>)], [type |-> CommaString(<<"text">>)],
     [type |-> CommaString(<<"text", ",", " ", "number">>)],
     [type |-> CommaString(<<"text", ",", "colour">>)],
     [type |-> ListOfStrings(<<>>)], [type |-> ListOfStrings(<<<<"dropdown">>>>)],
     [type |-> ListOfStrings(<<<<"member">>, <<"checkbox">>>>)]}

UpdateFieldArgs ==
    {EmptyObject, [name |-> "n"], [name |-> ""], [owner_email |-> ""],
     [owner_email |-> "o@x"], [archived |-> JsBoolean(FALSE)],
     [archived |-> JsString("false")]}

Call(name, args) == [name |-> name, args |-> args]

\* values of a flag that goes into the query as given: false, 0, true, 1,
\* "false", the empty string and null
FlagValues ==
    {JsBoolean(FALSE), JsBoolean(TRUE), JsNumber("0"), JsNumber("1"), JsString("false"),
     JsString(""), JsNull}

\* a nested filter {outer: {inner: value}}
NestedFilter(outer, inner, value) ==
    FilterObject(<<<<outer, FilterObject(<<<<inner, FilterScalar(value)>>>>)>>>>)

\* raw filters objects: {a: {b: 1, c: [2, 3]}, d: null}, objects with empty
\* and undefined leaves, and values that are not objects
FilterArgs ==
    {[filters |-> FilterObject(<<
         <<"a", FilterObject(<<<<"b", FilterScalar("1")>>,
                               <<"c", FilterArray(<<"2", "3">>)>>>>)>>,
         <<"d", FilterScalar(Null)>>>>)],
     [filters |-> FilterObject(<<<<"a", FilterObject(<<>>)>>,
                                 <<"b", FilterScalar(Undefined)>>,
                                 <<"c", FilterArray(<<>>)>>,
                                 <<"e", FilterObject(<<
                                     <<"f", FilterObject(<<<<"g", FilterScalar("7")>>>>)>>>>)>>>>)],
     [filters |-> FilterObject(<<>>)],
     [filters |-> FilterScalar("x")],
     [filters |-> FilterArray(<<"1">>)]}

\* calls that name a convenience filter and set the same dotted key in filters
FilterCalls ==
    {Call("pb_features_list", [limit |-> Num(1)] @@ f) : f \in FilterArgs}
    \cup {Call("pb_features_list",
               [limit |-> Num(1), status_id |-> "s1",
                filters |-> NestedFilter("status", "id", "s9")]),
          Call("pb_notes_list",
               [limit |-> Num(1), term |-> "t1",
                filters |-> FilterObject(<<<<"term", FilterScalar("t9")>>>>)]),
          Call("pb_releases_list",
               [limit |-> Num(1), release_group_id |-> "g1",
                filters |-> NestedFilter("releaseGroup", "id", "g9")]),
          Call("pb_objectives_list",
               [limit |-> Num(1), owner_email |-> "a@x",
                filters |-> NestedFilter("owner", "email", "b@x")])}

\* spellings of the product of pb_features_list, alone, together, empty, and
\* beside parent_id
ProductArgs ==
    {[product_id |-> "p1"], ("product.id" :> "p2"), [product |-> [id |-> "p3"]],
     [parent_id |-> "x1"], [product_id |-> "p1", parent_id |-> "x1"],
     [product_id |-> "", parent_id |-> "x1"],
     [product_id |-> "p1", product |-> [id |-> "p3"]] @@ ("product.id" :> "p2"),
     [product_id |-> ""] @@ ("product.id" :> "p2"),
     [product |-> [id |-> "p3"], parent_id |-> "x1"] @@ ("product.id" :> "")}

ListCalls ==
    {Call("pb_features_list", a) : a \in LimitArgs(WalkLimits \cup OtherLimits)}
    \cup FilterCalls
    \cup {Call("pb_features_list", [limit |-> Num(1)] @@ p) : p \in ProductArgs}
    \cup {Call("pb_notes_list", a @@ c) :
            a \in LimitArgs({LimitUndefined, NumFrac(0), Num(250)} \cup SmallLimits),
            c \in {EmptyObject, [pageCursor |-> "c0"]}}
    \cup {Call("pb_companies_list", a) :
            a \in LimitArgs({LimitUndefined, NumFrac(0)} \cup SmallLimits)}
    \cup {Call("pb_companies_list", [limit |-> Num(1), hasNotes |-> v]) : v \in FlagValues}
    \cup {Call("pb_features_list", [limit |-> Num(1), archived |-> v]) : v \in FlagValues}
    \cup {Call("pb_features_list",
               [limit |-> Num(1), archived |-> JsBoolean(FALSE),
                filters |-> FilterObject(<<<<"x", FilterScalar("")>>,
                                           <<"n", FilterScalar("0")>>,
                                           <<"l", FilterArray(<<"">>)>>>>)])}
    \cup {Call("pb_companies_list", [limit |-> Num(250)]),
          Call("pb_companies_list", [limit |-> Num(MaxSmallLimit), term |-> "t1"]),
          Call("pb_companies_list",
               [limit |-> Num(MaxSmallLimit),
                filters |-> FilterObject(<<<<"pageLimit", FilterScalar("5")>>>>)])}
    \cup {Call(name, a) :
            name \in {"pb_feature_statuses", "pb_components_list", "pb_products_list",
                      "pb_objectives_list", "pb_key_results_list", "pb_initiatives_list",
                      "pb_releases_list", "pb_release_groups_list",
                      "pb_feature_release_list", "pb_users_list"},
            a \in LimitArgs({Num(1), NumFrac(0)})}
    \cup {Call("pb_feature_objectives", i @@ a) : i \in IdArgs, a \in LimitArgs({Num(1)})}
    \cup {Call("pb_custom_fields_list", t @@ a) : t \in TypeArgs, a \in LimitArgs({Num(1)})}
    \cup {Call("pb_feature_objectives", [id |-> "e1", limit |-> NumFrac(0)]),
          Call("pb_custom_fields_list",
               [type |-> CommaString(<<"text">>), limit |-> NumFrac(0)])}

GetCalls ==
    {Call(name, i) :
        name \in {"pb_feature_get", "pb_feature_delete", "pb_note_get", "pb_objective_get",
                  "pb_key_result_get", "pb_initiative_get", "pb_release_get"},
        i \in IdArgs}
    \cup {Call("pb_user_current", EmptyObject)}
    \cup {Call("pb_custom_field_value_get", a) :
            a \in {EmptyObject, [custom_field_id |-> "cf1"],
                   [custom_field_id |-> "cf1", hierarchy_entity_id |-> "h1"],
                   [customField |-> [id |-> "cf1"]] @@ ("hierarchyEntity.id" :> "h1")}}

CreateCalls ==
    {Call("pb_feature_create", n @@ s @@ p) :
        n \in {EmptyObject, [name |-> "n"], [name |-> "n", description |-> "d"]},
        s \in {EmptyObject, [status_name |-> "Done"],
               [status_id |-> "s2", status_name |-> "Done"]},
        p \in ParentArgs}
    \cup {Call("pb_note_create", a) :
            a \in {EmptyObject, [title |-> "t"], [title |-> "t", content |-> "c"],
                   [title |-> "t", content |-> "c", tags |-> JsNull]}
                  \cup {[title |-> "t", content |-> "c", tags |-> v] : v \in TagValues}}
    \cup {Call("pb_note_link", a) :
            a \in {EmptyObject, [note_id |-> "n1"], [note_id |-> "n1", entity_id |-> "e1"],
                   [noteId |-> "n1", entityId |-> "e1"]}}
    \cup {Call(name, n @@ t) :
            name \in {"pb_objective_create", "pb_initiative_create"},
            n \in {EmptyObject, [name |-> "n"], [name |-> "n", status |-> StatusString("Done"),
                                                  status_id |-> "s2"]},
            t \in TimeframeArgs}
    \cup {Call("pb_key_result_create", n @@ t @@ g) :
            n \in {EmptyObject, [name |-> "n"], [name |-> "n", objective_id |-> "o1"]},
            t \in {EmptyObject, [start_date |-> "2024-01-01"]},
            g \in ProgressArgs}
    \cup {Call("pb_release_create", n @@ t) :
            n \in {[name |-> "n"], [name |-> "n", description |-> "d"],
                   [name |-> "n", description |-> "d", release_group_id |-> "g1"]},
            t \in TimeframeArgs}
    \cup {Call(name, a) :
            name \in {"pb_feature_link_objective", "pb_feature_link_initiative"},
            a \in {EmptyObject, [id |-> "f1"],
                   [id |-> "f1", objective_id |-> "o1", initiative_id |-> "i1"]}}
    \cup {Call("pb_feature_release_assign", i @@ a) :
            i \in {EmptyObject, [feature_id |-> "f1"],
                   [feature_id |-> "f1", release_id |-> "r1"]},
            a \in AssignedArgs}

UpdateCalls ==
    {Call("pb_feature_update", [id |-> "f1"] @@ s) : s \in StatusArgs}
    \cup {Call("pb_feature_update", i @@ p @@ u) :
            i \in IdArgs, p \in ParentArgs, u \in UpdateFieldArgs}
    \cup {Call("pb_note_update", i @@ u) :
            i \in IdArgs,
            u \in {EmptyObject, [title |-> "t"], [tags |-> JsNull]}
                  \cup {[tags |-> v] : v \in TagValues}}
    \cup {Call(name, i @@ t @@ u) :
            name \in {"pb_objective_update", "pb_initiative_update", "pb_release_update"},
            i \in {EmptyObject, [id |-> "e1"]},
            t \in TimeframeArgs, u \in UpdateFieldArgs}
    \cup {Call("pb_key_result_update", i @@ g @@ u) :
            i \in {EmptyObject, [id |-> "e1"]},
            g \in ProgressArgs, u \in UpdateFieldArgs}

\* names that are not in the catalog: a missing name, an unknown name, and
\* the properties inherited from Object.prototype
UnknownCalls ==
    {Call(name, EmptyObject) : name \in {Undefined, "pb_feature_archive"} \cup ObjectPrototypeKeys}
    \cup {Call("constructor", [id |-> "e1"])}

ToolCalls == ListCalls \cup GetCalls \cup CreateCalls \cup UpdateCalls \cup UnknownCalls

----------------------------------------------------------------------------
(* The remote                                                               *)

PageSizes == (0..MaxSmallPage) \cup {MAX_PAGE_SIZE}

\* the data array of the page that answers request number k
PageData(k, size) == [i \in 1..size |-> [page |-> k, pos |-> i]]

\* the payloads of a 2xx answer to request number k of a walk: data is an
\* array of some size or is not an array, with any continuation
PagePayloads(k, continuations) ==
    {[isArray |-> TRUE, data |-> PageData(k, size), next |-> c] :
        size \in PageSizes, c \in continuations}
    \cup {[isArray |-> FALSE, data |-> <<>>, next |-> c] : c \in continuations}

Cursors == {Undefined, Null, "", "c1", "c2"}

\* the payloads of a 2xx answer to a single request: with or without data
EntityPayloads == {[hasData |-> TRUE], [hasData |-> FALSE]}

\* the payloads of a 2xx answer to GET /users in pbUserCurrent
UsersPayloads ==
    {[isArray |-> TRUE, data |-> PageData(1, size), next |-> Undefined] : size \in 0..2}
    \cup {[isArray |-> FALSE, data |-> <<>>, next |-> Undefined]}

NoPayload == [defined |-> FALSE]
JsonPayload(obj) == [defined |-> TRUE, obj |-> obj]

\* JSON bodies of non-2xx answers: a blank message beside error.message, an
\* error without message beside errors, errors led by an object with message
\* or with detail, and bodies with no message anywhere
ErrorPayloads ==
    {[message |-> " ", error |-> [message |-> "Denied by policy"]],
     [error |-> [code |-> "E1"], errors |-> <<ErrorString("Name is required")>>],
     [errors |-> <<ErrorObject([message |-> "Too long"]), ErrorString("Too short")>>],
     [errors |-> <<ErrorObject([detail |-> "Out of range"])>>],
     [errors |-> <<ErrorObject([code |-> "E1"])>>],
     [errors |-> <<>>, code |-> "E1"]}

\* non-2xx answers
ErrorResponses ==
    {[status |-> st, retryAfter |-> Undefined, payload |-> NoPayload, rawText |-> ""] :
        st \in {400, 401, 403, 404, 500}}
    \cup {[status |-> 429, retryAfter |-> h, payload |-> NoPayload, rawText |-> ""] :
            h \in {Undefined, "0", "3", "soon"}}
    \cup {[status |-> 500, retryAfter |-> Undefined, payload |-> NoPayload,
           rawText |-> "Bad gateway"],
          [status |-> 422, retryAfter |-> Undefined,
           payload |-> JsonPayload([message |-> "Invalid input"]), rawText |-> "{..}"],
          [status |-> 401, retryAfter |-> Undefined,
           payload |-> JsonPayload([message |-> "Token revoked"]), rawText |-> "{..}"]}
    \cup {[status |-> 500, retryAfter |-> Undefined, payload |-> JsonPayload(obj),
            rawText |-> "{..}"] : obj \in ErrorPayloads}

----------------------------------------------------------------------------
(* Actions                                                                  *)

\* an invocation the host has not dispatched yet
NotStarted ==
    [pc |-> "idle", toolName |-> Undefined, toolArgs |-> EmptyObject,
     frame |-> [fn |-> "none"], requests |-> <<>>, fetched |-> <<>>, responses |-> <<>>,
     answers |-> <<>>, caught |-> NoError, outcome |-> NoOutcome]

Init ==
    /\ envToken \in Tokens
    /\ parked = <<NotStarted, NotStarted>>
    /\ pc = "idle"
    /\ toolName = Undefined
    /\ toolArgs = EmptyObject
    /\ frame = [fn |-> "none"]
    /\ requests = <<>>
    /\ fetched = <<>>
    /\ responses = <<>>
    /\ answers = <<>>
    /\ caught = NoError
    /\ outcome = NoOutcome

\* the handler from the end of its argument checks to its first await
StartRequests(plan) ==
    IF plan.op = "listWithLinks" THEN LoopListWithLinks(EnterListWithLinks(plan))
    ELSE IF plan.op = "listNotes" THEN LoopListNotes(EnterListNotes(plan))
    ELSE Fetch(RelativeRequest(plan.method, plan.path, plan.query, plan.body),
               [fn |-> plan.op, phase |-> plan.path])

\* a variant whose handlers send a request before they check their arguments
InvokeRequestFirst(name, plan) ==
    IF plan.err # NoError
    THEN /\ pc' = "done"
         /\ caught' = plan.err
         /\ outcome' = asErrorResult(plan.err)
         /\ frame' = [fn |-> name]
         /\ requests' = Append(requests,
                RelativeRequest("GET", <<"/">>, EmptyObject, NoBody)
                @@ [authorization |-> <<"Bearer", envToken.chars>>])
    ELSE StartRequests(plan)

\* await handler(toolArgs): the handler checks its arguments, throwing the
\* first error it finds, before it builds and sends anything
InvokeHandler(name, plan) ==
    IF plan.err # NoError THEN Throw(plan.err, [fn |-> name]) ELSE StartRequests(plan)

\* The host calls a tool: the CallTool dispatch handler looks the handler up
\* and runs it to its first awaited fetch, or to the envelope it returns.
CallTool ==
    /\ pc = "idle"
    /\ \E call \in ToolCalls :
        LET handler == toolHandlers(call.name)
        IN /\ toolName' = call.name
           /\ toolArgs' = call.args
           /\ UNCHANGED <<envToken, parked, fetched, responses, answers>>
           /\ IF handler.found = "undefined"
              THEN /\ pc' = "done"
                   /\ outcome' = asErrorResult(
                          ValidationError("Unknown tool: ", Interpolate(call.name)))
                   /\ UNCHANGED <<frame, requests, caught>>
              ELSE IF handler.found = "inherited"
              THEN LET ran == RunInherited(call.name, call.args)
                       f == [fn |-> "inherited"]
                   IN IF ran.threw THEN Throw(ran.error, f) ELSE Return(ran.data, f)
              ELSE InvokeHandler(call.name, RunHandler(call.name, call.args))

\* the remote's payloads for the request outstanding
PayloadsFor(f) ==
    IF f.fn = "listWithLinks" THEN PagePayloads(Len(requests), FollowedLinks \cup AbsentLinks)
    ELSE IF f.fn = "listNotes" THEN PagePayloads(Len(requests), Cursors)
    ELSE IF f.fn = "pbUserCurrent" /\ f.phase = <<"/users">> THEN UsersPayloads
    ELSE EntityPayloads

\* whether a walker that receives this payload goes on to another request
GoesOn(f, payload) ==
    /\ f.fn \in {"listWithLinks", "listNotes"}
    /\ Truthy(payload.next)
    /\ Len(f.items) + Len(PageItemsOf(payload)) < f.maxItems

\* The remote answers 2xx: apiRequest returns the payload and the handler
\* runs to its next await or to its return.
RespondOk ==
    /\ pc = "await"
    /\ \E payload \in PayloadsFor(frame) :
        /\ GoesOn(frame, payload) => Len(requests) < MaxRequests
        /\ UNCHANGED <<envToken, parked, toolName, toolArgs>>
        /\ answers' = Append(answers, [ended |-> "ok", payload |-> payload])
        /\ IF frame.fn = "listWithLinks"
           THEN LET pageItems == PageItemsOf(payload)
                    remaining == frame.maxItems - Len(frame.items)
                    items == frame.items \o SlicePage(pageItems, remaining)
                    candidateNext == payload.next
                IN /\ fetched' = fetched \o pageItems
                   /\ responses' = Append(responses, payload)
                   /\ IF StopsAfterPage(candidateNext, Len(items), frame.maxItems)
                      THEN Return(LinksResult(frame, items,
                                      HasMore(candidateNext, Len(items), frame.maxItems),
                                      Coalesce(candidateNext, Null)),
                                  [frame EXCEPT !.items = items])
                      ELSE LoopListWithLinks(
                               [frame EXCEPT !.items = items,
                                             !.nextUrl = ResolveNext(candidateNext),
                                             !.firstQuery = EmptyObject])
           ELSE IF frame.fn = "listNotes"
           THEN LET pageItems == PageItemsOf(payload)
                    remaining == frame.maxItems - Len(frame.items)
                    items == frame.items \o SlicePage(pageItems, remaining)
                    cursor == payload.next
                IN /\ fetched' = fetched \o pageItems
                   /\ responses' = Append(responses, payload)
                   /\ IF StopsAfterPage(cursor, Len(items), frame.maxItems)
                      THEN Return(NotesResult(frame, items,
                                      HasMore(cursor, Len(items), frame.maxItems),
                                      Coalesce(cursor, Null)),
                                  [frame EXCEPT !.items = items, !.cursor = cursor])
                      ELSE LoopListNotes([frame EXCEPT !.items = items, !.cursor = cursor])
           ELSE /\ UNCHANGED <<fetched, responses>>
                /\ IF frame.fn = "pbUserCurrent" /\ frame.phase = <<"/users">>
                   THEN Return([warning |-> "GET /user is unavailable",
                                users_count |-> Len(PageItemsOf(payload)),
                                first_user |-> IF Len(PageItemsOf(payload)) > 0
                                               THEN <<PageItemsOf(payload)[1]>> ELSE <<>>],
                               frame)
                   ELSE Return([data |-> IF payload.hasData THEN "<payload.data>" ELSE Null],
                               frame)

\* a variant of pbUserCurrent that falls back on every HTTP error of GET /user
FallsBackOnAnyStatus(f, error) ==
    f.fn = "pbUserCurrent" /\ f.phase = <<"/user">> /\ error.status # NoStatus

\* pbUserCurrent: catch (error) { if (error.status === 404) ... } around GET /user
FallsBack(f, error) ==
    f.fn = "pbUserCurrent" /\ f.phase = <<"/user">> /\ error.status = 404

\* The remote answers non-2xx: apiRequest throws buildApiError(...).  Only
\* pbUserCurrent catches it, and only a 404 of GET /user.
RespondError ==
    /\ pc = "await"
    /\ \E response \in ErrorResponses :
        /\ UNCHANGED <<envToken, parked, toolName, toolArgs, fetched, responses>>
        /\ answers' = Append(answers, [ended |-> "status", status |-> response.status])
        /\ IF FallsBack(frame, buildApiError(response))
           THEN Fetch(RelativeRequest("GET", <<"/users">>, EmptyObject, NoBody),
                      [frame EXCEPT !.phase = <<"/users">>])
           ELSE Throw(buildApiError(response), frame)

\* a variant in which a walker sends its request again after a rejected fetch
NetworkFailRetried ==
    /\ pc = "await"
    /\ UNCHANGED <<envToken, parked, toolName, toolArgs, fetched, responses>>
    /\ answers' = Append(answers, [ended |-> "rejected"])
    /\ IF frame.fn \in {"listWithLinks", "listNotes"} /\ Len(requests) < MaxRequests
       THEN /\ requests' = Append(requests, requests[Len(requests)])
            /\ UNCHANGED <<pc, frame, caught, outcome>>
       ELSE Throw(NetworkError, frame)

\* fetch rejects: apiRequest throws the network error
NetworkFail ==
    /\ pc = "await"
    /\ UNCHANGED <<envToken, parked, toolName, toolArgs, fetched, responses>>
    /\ answers' = Append(answers, [ended |-> "rejected"])
    /\ Throw(NetworkError, frame)

Next == CallTool \/ RespondOk \/ RespondError \/ NetworkFail

Spec == Init /\ [][Next]_vars

----------------------------------------------------------------------------
(* Properties                                                               *)

Walking == frame.fn \in {"listWithLinks", "listNotes"}
Succeeded == pc = "done" /\ outcome.keys = {"content"}
Failed == pc = "done" /\ "isError" \in outcome.keys
Result == outcome.content[1].json
ErrorBody == outcome.content[1].json.error
LastResponse == responses[Len(responses)]
ValidToken == getApiToken(envToken).err = NoError
Prefix(seq, n) == SubSeq(seq, 1, Min(n, Len(seq)))

\* C1: in every state of a walk of listWithLinks or listNotes, after each
\* page as well as at the return, the accumulated items are no more than the
\* effective maximum N and are exactly the first min(N, length) elements of
\* the concatenation of the data arrays fetched; the result returns those
\* items with count = items.length <= N.
C1_ItemsArePrefixWithinMaximum ==
    Walking =>
        /\ Len(frame.items) <= frame.maxItems
        /\ frame.items = Prefix(fetched, frame.maxItems)
        /\ Succeeded => /\ Result.items = frame.items
                        /\ Result.count = Len(Result.items)
                        /\ Result.count <= frame.maxItems

\* a walk of several pages returned with its last page cut to the quota
C1_Witness ==
    /\ Walking /\ Succeeded
    /\ Len(responses) >= 2
    /\ Len(fetched) > Len(Result.items)
    /\ Len(Result.items) = frame.maxItems

\* C2: when a walker returns, has_more is true exactly when the count has
\* reached the effective maximum N and the last response carried a
\* continuation token; it is false when the token was absent.
C2_HasMoreIffQuotaAndContinuation ==
    (Walking /\ Succeeded) =>
        /\ Result.has_more = (Len(Result.items) >= frame.maxItems
                              /\ Truthy(LastResponse.next))
        /\ ~Truthy(LastResponse.next) => Result.has_more = FALSE

\* a walk of several pages that met its quota while a continuation was left
C2_Witness ==
    /\ Walking /\ Succeeded
    /\ Len(responses) >= 2
    /\ Result.has_more = TRUE
    /\ Truthy(LastResponse.next)

\* every response so far was a full page of P items with a continuation
FullPages(P) ==
    \A i \in 1..Len(responses) :
        /\ responses[i].isArray
        /\ Len(responses[i].data) = P
        /\ Truthy(responses[i].next)

CeilDiv(n, p) == (n + p - 1) \div p

\* C3: a walker sends a request only in a state where the accumulated count
\* is below the effective maximum N; and a walk that got only full pages of
\* P items, each with a continuation, returns after ceil(N/P) requests with N
\* items and has_more = true (limit 250, pages of 100: 3 requests, 250 items).
C3_RequestsOnlyBelowMaximum ==
    /\ [][(Len(requests') > Len(requests) /\ frame'.fn \in {"listWithLinks", "listNotes"})
            => Len(frame'.items) < frame'.maxItems]_vars
    /\ []((Walking /\ Succeeded) =>
            \A P \in PageSizes \ {0} :
                FullPages(P) => /\ Len(requests) = CeilDiv(frame.maxItems, P)
                                /\ Result.count = frame.maxItems
                                /\ Result.has_more = TRUE)

\* limit 250 against pages of 100 with a next link: returned after 3 requests
C3_Witness ==
    /\ frame.fn = "listWithLinks" /\ Succeeded
    /\ "limit" \in DOMAIN toolArgs /\ toolArgs["limit"] = Num(250)
    /\ FullPages(MAX_PAGE_SIZE)
    /\ Len(requests) = 3
    /\ Result.count = 250
    /\ Result.has_more = TRUE

\* C4: the value normalizeLimit returns to a list operation for its limit
\* argument is an integer in [1, 1000], and it is the effective maximum of
\* the walk of that operation.
C4_LimitWithinRangeAndUsed ==
    Walking =>
        /\ frame.limit \in 1..LIMIT_CEILING
        /\ frame.maxItems = frame.limit

\* C5: a call whose tool name is not in the catalog returns the error
\* envelope with status 400 and a message that names the tool; no handler
\* runs and no request is sent.
C5_UnknownToolIsValidationError ==
    (pc = "done" /\ toolName \notin RegisteredTools) =>
        /\ Failed
        /\ "status" \in ErrorBody.keys
        /\ ErrorBody.status = 400
        /\ ErrorBody.message = [text |-> "Unknown tool: ", arg |-> Interpolate(toolName)]
        /\ frame.fn = "none"
        /\ requests = <<>>

ErrorKeys == {"message", "status", "retry_after_seconds", "details"}

SuccessEnvelope ==
    /\ outcome.keys = {"content"}
    /\ Len(outcome.content) = 1
    /\ outcome.content[1].type = "text"

ErrorEnvelope ==
    /\ outcome.keys = {"isError", "content"}
    /\ outcome.isError = TRUE
    /\ Len(outcome.content) = 1
    /\ outcome.content[1].type = "text"
    /\ DOMAIN Result = {"error"}
    /\ "message" \in ErrorBody.keys
    /\ ErrorBody.keys \subseteq ErrorKeys

\* C6: an invocation is over exactly when the host has its one envelope; for
\* a registered tool it is the success envelope when the handler returned
\* and the error envelope, with the message of the error, when the handler
\* threw an error of any kind.
C6_ExactlyOneEnvelope ==
    /\ pc # "done" => outcome = NoOutcome
    /\ pc = "done" =>
        /\ SuccessEnvelope \/ ErrorEnvelope
        /\ caught # NoError => ErrorEnvelope /\ ErrorBody.message = caught.message
        /\ (caught = NoError /\ toolName \in RegisteredTools) => SuccessEnvelope

\* a registered tool whose request failed in the network: an error without a
\* status, returned in the error envelope
C6_Witness ==
    /\ pc = "done" /\ toolName \in RegisteredTools
    /\ caught.kind = "transport"
    /\ ErrorEnvelope
    /\ ErrorBody.keys = {"message", "details"}

\* C7: when the arguments of a tool are rejected with a validation error
\* (status 400), no request has been sent in that invocation.
C7_ValidationErrorSendsNothing ==
    caught.kind = "validation" =>
        /\ requests = <<>>
        /\ Failed
        /\ "status" \in ErrorBody.keys /\ ErrorBody.status = 400

\* a mutating tool rejected while the token would have let a request go out
C7_Witness ==
    /\ caught.kind = "validation"
    /\ ValidToken
    /\ toolName \in {"pb_feature_update", "pb_feature_release_assign", "pb_feature_delete"}
    /\ requests = <<>>

BlankToken ==
    ~envToken.set \/ \A i \in 1..Len(envToken.chars) : envToken.chars[i] = " "

\* C8: with the token unset, empty or of spaces only, no request is ever
\* sent, and every invocation of a registered tool whose arguments pass
\* validation ends in the error envelope with status 401 and the
\* missing-token message.
C8_BlankTokenIsConfigurationError ==
    BlankToken =>
        /\ requests = <<>>
        /\ pc # "await"
        /\ (pc = "done" /\ toolName \in RegisteredTools /\ caught.kind # "validation") =>
            /\ Failed
            /\ caught = MissingToken
            /\ "status" \in ErrorBody.keys /\ ErrorBody.status = 401
            /\ ErrorBody.message = MissingToken.message

\* a list operation called with limit 0.5 under a token of one space
C8_Witness ==
    /\ envToken = TokenOf(<<" ">>)
    /\ toolName = "pb_users_list"
    /\ "limit" \in DOMAIN toolArgs /\ toolArgs["limit"] = NumFrac(0)
    /\ Failed
    /\ caught = MissingToken

\* C9: every request sent, each with the bearer token, is addressed to the
\* host api.productboard.com.
C9_RequestsGoToProductboard ==
    \A i \in 1..Len(requests) :
        /\ requests[i].authorization[1] = "Bearer"
        /\ requests[i].url.host = PRODUCTBOARD_BASE_HOST

InlineStatusGiven(args) ==
    LET raw == RawStatus(args)
    IN \/ raw.t = "string"
       \/ raw.t = "object" /\ (Truthy(Get(raw.obj, "id")) \/ Truthy(Get(raw.obj, "name")))

InlineStatusHasBoth(args) ==
    LET raw == RawStatus(args)
    IN raw.t = "object" /\ Truthy(Get(raw.obj, "id")) /\ Truthy(Get(raw.obj, "name"))

StatusIdGiven(args) == Truthy(Get(args, "status_id"))
StatusNameGiven(args) == Truthy(Get(args, "status_name"))

AmbiguousStatus(args) ==
    \/ InlineStatusHasBoth(args)
    \/ InlineStatusGiven(args) /\ (StatusIdGiven(args) \/ StatusNameGiven(args))
    \/ StatusIdGiven(args) /\ StatusNameGiven(args)

\* C10: in pb_feature_update, resolveStatusFromArgs throws a validation
\* error (status 400), which is the error of the call, when the status object
\* has both an id and a name, when an inline status comes with status_id or
\* status_name, or when status_id and status_name both come; otherwise it
\* returns undefined when no representation is given and else a status with
\* exactly one of id and name (a string s gives {name: s}, status_name alone
\* gives {name: status_name}), which is the status of the body sent.
C10_StatusResolution ==
    (toolName = "pb_feature_update" /\ pc # "idle" /\ Truthy(Get(toolArgs, "id"))) =>
        LET r == resolveStatusFromArgs(toolArgs)
            raw == RawStatus(toolArgs)
            given == InlineStatusGiven(toolArgs) \/ StatusIdGiven(toolArgs)
                     \/ StatusNameGiven(toolArgs)
        IN IF AmbiguousStatus(toolArgs)
           THEN /\ r.err.kind = "validation" /\ r.err.status = 400
                /\ caught = r.err
                /\ requests = <<>>
           ELSE /\ r.err = NoError
                /\ ~given => r.value = UndefinedValue
                /\ given => /\ r.value.defined
                            /\ DOMAIN r.value.obj \in {{"id"}, {"name"}}
                /\ raw.t = "string" => r.value.obj = [name |-> raw.str]
                /\ (~InlineStatusGiven(toolArgs) /\ StatusNameGiven(toolArgs))
                      => r.value.obj = [name |-> toolArgs["status_name"]]
                /\ (~InlineStatusGiven(toolArgs) /\ StatusIdGiven(toolArgs))
                      => r.value.obj = [id |-> toolArgs["status_id"]]
                /\ requests # <<>> =>
                      LET data == requests[1].body.obj.data
                      IN /\ ("status" \in DOMAIN data) = r.value.defined
                         /\ r.value.defined => data["status"] = r.value.obj

\* status_name "Done" alone, sent as the status {name: "Done"}
C10_Witness ==
    /\ toolName = "pb_feature_update"
    /\ toolArgs = [id |-> "f1", status_name |-> "Done"]
    /\ pc = "await"
    /\ requests[1].body.obj.data = [status |-> [name |-> "Done"]]

\* the id a parent kind resolves to: the first of its spellings (under
\* parent, nested, dotted, flat) that is neither undefined nor null
KindId(args, kind, dotted, flat) ==
    Coalesce4(Get3(args, "parent", kind, "id"), Get2(args, kind, "id"),
              Get(args, dotted), Get(args, flat))

ParentKinds ==
    {<<"product", "product.id", "product_id">>,
     <<"component", "component.id", "component_id">>,
     <<"feature", "feature.id", "parent_feature_id">>}

\* the kinds that resolve to a non-empty id
ResolvedKinds(args) == {k \in ParentKinds : Truthy(KindId(args, k[1], k[2], k[3]))}

\* the call is pb_feature_create or pb_feature_update and has reached the
\* resolution of the parent: the checks before it have passed
ReachedParent ==
    /\ pc # "idle"
    /\ resolveStatusFromArgs(toolArgs).err = NoError
    /\ \/ /\ toolName = "pb_feature_create"
          /\ Truthy(Get(toolArgs, "name")) /\ Truthy(Get(toolArgs, "description"))
          /\ resolveStatusFromArgs(toolArgs).value.defined
       \/ /\ toolName = "pb_feature_update"
          /\ Truthy(Get(toolArgs, "id"))

\* C11: in pb_feature_create (parent required) and pb_feature_update (parent
\* optional), normalizeParentInput throws a validation error (status 400),
\* which is the error of the call, when more than one parent kind resolves;
\* returns {kind: {id}} for the only kind that resolves, which is the parent
\* of the body sent; and when none resolves throws a validation error if the
\* parent is required and returns undefined otherwise.
C11_ParentResolution ==
    ReachedParent =>
        LET required == toolName = "pb_feature_create"
            r == normalizeParentInput(toolArgs, required)
            kinds == ResolvedKinds(toolArgs)
        IN IF Cardinality(kinds) > 1 \/ (kinds = {} /\ required)
           THEN /\ r.err.kind = "validation" /\ r.err.status = 400
                /\ caught = r.err
                /\ requests = <<>>
           ELSE /\ r.err = NoError
                /\ kinds = {} => r.value = UndefinedValue
                /\ \A k \in kinds :
                      /\ r.value.defined
                      /\ DOMAIN r.value.obj = {k[1]}
                      /\ r.value.obj[k[1]] = [id |-> KindId(toolArgs, k[1], k[2], k[3])]
                /\ requests # <<>> =>
                      LET data == requests[1].body.obj.data
                      IN /\ ("parent" \in DOMAIN data) = r.value.defined
                         /\ r.value.defined => data["parent"] = r.value.obj

\* parent_feature_id "f1" alone, sent as the parent {feature: {id: "f1"}}
C11_Witness ==
    /\ toolName = "pb_feature_update"
    /\ pc = "await"
    /\ Get(toolArgs, "parent_feature_id") = "f1"
    /\ ResolvedKinds(toolArgs) = {<<"feature", "feature.id", "parent_feature_id">>}
    /\ requests[1].body.obj.data["parent"] = [feature |-> [id |-> "f1"]]

\* the first of the values that is neither undefined nor null
FirstGiven(values) ==
    IF \E i \in 1..Len(values) : ~Nullish(values[i])
    THEN values[CHOOSE i \in 1..Len(values) :
                    ~Nullish(values[i]) /\ \A j \in 1..(i - 1) : Nullish(values[j])]
    ELSE Undefined

ResolvedStartDate(args) ==
    FirstGiven(<<Get(args, "start_date"), Get(args, "startDate"),
                 Get2(args, "timeframe", "startDate"), Get2(args, "timeframe", "start")>>)

ResolvedEndDate(args) ==
    FirstGiven(<<Get(args, "end_date"), Get(args, "endDate"),
                 Get2(args, "timeframe", "endDate"), Get2(args, "timeframe", "end")>>)

ResolvedGranularity(args) ==
    FirstGiven(<<Get(args, "granularity"), Get2(args, "timeframe", "granularity")>>)

IsPresent(value) == value # Undefined /\ value # Null /\ value # ""

DateRangeCreates == {"pb_objective_create", "pb_initiative_create"}

\* the call has reached the timeframe of pb_objective_create or
\* pb_initiative_create: the checks before it have passed
ReachedDateTimeframe ==
    /\ pc # "idle"
    /\ toolName \in DateRangeCreates
    /\ Truthy(Get(toolArgs, "name"))
    /\ resolveStatusFromArgs(toolArgs).err = NoError

\* C12: in the creation of an objective or an initiative,
\* buildDateTimeframeInput throws a validation error (status 400), which is
\* the error of the call, exactly when one of startDate and endDate is
\* present and the other is not; it returns undefined (no timeframe key in
\* the body) when none of startDate, endDate and granularity is present; and
\* otherwise it returns the object of the present fields, with startDate
\* exactly when with endDate, which is the timeframe of the body sent.
C12_DateTimeframe ==
    ReachedDateTimeframe =>
        LET r == buildDateTimeframeInput(toolArgs)
            start == ResolvedStartDate(toolArgs)
            end == ResolvedEndDate(toolArgs)
            granularity == ResolvedGranularity(toolArgs)
        IN /\ (r.err # NoError) = (IsPresent(start) # IsPresent(end))
           /\ r.err # NoError => /\ r.err.kind = "validation" /\ r.err.status = 400
                                 /\ caught = r.err
                                 /\ requests = <<>>
           /\ r.err = NoError =>
                /\ r.value.defined
                      = (IsPresent(start) \/ IsPresent(end) \/ IsPresent(granularity))
                /\ r.value.defined =>
                      /\ ("startDate" \in DOMAIN r.value.obj) = ("endDate" \in DOMAIN r.value.obj)
                      /\ ("startDate" \in DOMAIN r.value.obj) = IsPresent(start)
                      /\ ("granularity" \in DOMAIN r.value.obj) = IsPresent(granularity)
                      /\ DOMAIN r.value.obj \subseteq {"startDate", "endDate", "granularity"}
                      /\ IsPresent(start) => r.value.obj["startDate"] = start
                      /\ IsPresent(end) => r.value.obj["endDate"] = end
                      /\ IsPresent(granularity) => r.value.obj["granularity"] = granularity
                /\ requests # <<>> =>
                      LET data == requests[1].body.obj.data
                      IN /\ ("timeframe" \in DOMAIN data) = r.value.defined
                         /\ r.value.defined => data["timeframe"] = r.value.obj

\* granularity "month" alone, sent as the timeframe {granularity: "month"}
C12_Witness ==
    /\ toolName = "pb_objective_create"
    /\ toolArgs = [name |-> "n", granularity |-> "month"]
    /\ pc = "await"
    /\ requests[1].body.obj.data["timeframe"] = [granularity |-> "month"]

\* the named convenience filters of list operations that also take a raw
\* filters object: the operation, the argument and the query key it sets
ConvenienceFilters ==
    {<<"pb_features_list", "status_id", <<"status", "id">>>>,
     <<"pb_features_list", "status_name", <<"status", "name">>>>,
     <<"pb_features_list", "owner_email", <<"owner", "email">>>>,
     <<"pb_notes_list", "term", <<"term">>>>,
     <<"pb_releases_list", "release_group_id", <<"releaseGroup", "id">>>>,
     <<"pb_companies_list", "term", <<"term">>>>,
     <<"pb_objectives_list", "owner_email", <<"owner", "email">>>>,
     <<"pb_key_results_list", "owner_email", <<"owner", "email">>>>,
     <<"pb_initiatives_list", "owner_email", <<"owner", "email">>>>}

\* C13: when a list operation is given a convenience filter and a raw
\* filters object that flattens to the same dotted key, the first request
\* carries the value of the convenience filter under that key.
C13_ConvenienceFilterWins ==
    \A c \in ConvenienceFilters :
        (/\ toolName = c[1]
         /\ requests # <<>>
         /\ Truthy(Get(toolArgs, c[2]))
         /\ c[3] \in DOMAIN flattenFilters(toolArgs))
        => /\ c[3] \in DOMAIN requests[1].search
           /\ requests[1].search[c[3]] = [string |-> toolArgs[c[2]]]

\* the paths of the leaves of a filter object that are neither null nor
\* undefined; an array is a leaf
RECURSIVE LeafPaths(_, _)
LeafPaths(entries, prefix) ==
    UNION {LET key == entries[i][1]
               raw == entries[i][2]
           IN IF raw.t = "object" THEN LeafPaths(raw.entries, Append(prefix, key))
              ELSE IF raw.t = "scalar" /\ Nullish(raw.v) THEN {}
              ELSE {Append(prefix, key)} :
           i \in 1..Len(entries)}

\* the leaf of a filter object at a path
RECURSIVE LeafAt(_, _)
LeafAt(entries, path) ==
    LET i == CHOOSE j \in 1..Len(entries) : entries[j][1] = Head(path)
    IN IF Len(path) = 1 THEN entries[i][2] ELSE LeafAt(entries[i][2].entries, Tail(path))

ExampleFilter ==
    FilterObject(<<
        <<"a", FilterObject(<<<<"b", FilterScalar("1")>>,
                              <<"c", FilterArray(<<"2", "3">>)>>>>)>>,
        <<"d", FilterScalar(Null)>>>>)

\* C14: in pb_features_list the raw filters argument flattens to a map whose
\* keys are exactly the paths of its leaves that are neither null nor
\* undefined, whose value at a path is the leaf itself when it is a scalar
\* and its elements joined with commas when it is an array, and which is
\* empty when the argument is not an object; {a: {b: 1, c: [2, 3]}, d: null}
\* gives {a.b: 1, a.c: "2,3"}; the first request carries that map.
C14_FlattenFilters ==
    (toolName = "pb_features_list" /\ "filters" \in DOMAIN toolArgs) =>
        LET filters == toolArgs["filters"]
            flat == flattenFilters(toolArgs)
        IN /\ filters.t # "object" => flat = EmptyObject
           /\ filters.t = "object" =>
                /\ DOMAIN flat = LeafPaths(filters.entries, <<>>)
                /\ \A path \in DOMAIN flat :
                      LET leaf == LeafAt(filters.entries, path)
                      IN IF leaf.t = "array"
                         THEN flat[path] = [t |-> "joined", items |-> leaf.items]
                         ELSE flat[path] = [t |-> "scalar", v |-> leaf.v]
           /\ filters = ExampleFilter =>
                flat = (<<"a", "b">> :> Scalar("1")) @@ (<<"a", "c">> :> Joined(<<"2", "3">>))
           /\ (requests # <<>> /\ DOMAIN toolArgs = {"limit", "filters"}) =>
                requests[1].search = applyQueryParams(flat)

\* the filters {a: {b: 1, c: [2, 3]}, d: null}, sent as a.b=1 and a.c=2,3
C14_Witness ==
    /\ toolName = "pb_features_list"
    /\ "filters" \in DOMAIN toolArgs /\ toolArgs["filters"] = ExampleFilter
    /\ pc = "await"
    /\ requests[1].search = (<<"a", "b">> :> [string |-> "1"])
                            @@ (<<"a", "c">> :> [commaJoined |-> <<"2", "3">>])

UpdateTools ==
    {"pb_feature_update", "pb_note_update", "pb_objective_update", "pb_key_result_update",
     "pb_initiative_update", "pb_release_update"}

OwnerUpdateTools ==
    {"pb_feature_update", "pb_objective_update", "pb_key_result_update",
     "pb_initiative_update"}

\* the arguments from which a key of the PATCH data is computed
BodyKeyArguments(key) ==
    CASE key = "owner" -> {"owner_email"}
      [] key = "status" -> {"status", "status_id", "status_name"}
      [] key = "parent" -> {"parent", "product", "component", "feature", "product.id",
                            "component.id", "feature.id", "product_id", "component_id",
                            "parent_feature_id", "parent.id", "parent_id", "objective_id",
                            "objectiveId"}
      [] key = "timeframe" -> {"timeframe", "start_date", "startDate", "end_date",
                               "endDate", "granularity"}
      [] key = "progress" -> {"progress", "start_value", "startValue", "target_value",
                              "targetValue", "current_value", "currentValue",
                              "progress_value", "progressPercent"}
      [] key = "releaseGroup" -> {"release_group_id", "releaseGroup", "releaseGroup.id"}
      [] OTHER -> {key}

RateLimitMessage ==
    [text |-> "Productboard API rate limit reached. Please retry shortly.", arg |-> ""]

\* C16: when a request is answered 429, the error envelope carries the
\* rate-limit message and status 429, with retry_after_seconds = n when the
\* retry-after header is a finite number n >= 0 and without
\* retry_after_seconds when the header is absent or is no finite number.
C16_RetryAfterCarried ==
    \A response \in ErrorResponses :
        (pc = "done" /\ response.status = 429 /\ caught = buildApiError(response)) =>
            /\ Failed
            /\ ErrorBody.message = RateLimitMessage
            /\ "status" \in ErrorBody.keys /\ ErrorBody.status = 429
            /\ IF response.retryAfter \in NumericHeaders
               THEN /\ "retry_after_seconds" \in ErrorBody.keys
                    /\ ErrorBody.retry_after_seconds
                          = RetryAfter(HeaderNumber(response.retryAfter))
               ELSE "retry_after_seconds" \notin ErrorBody.keys

FixedMessages ==
    [st \in {401, 403, 404, 429} |->
        [text |-> CASE st = 401 -> "Authentication failed. Check your Productboard API token."
                    [] st = 403 -> "Access denied by Productboard API. Verify token permissions."
                    [] st = 404 -> "Requested Productboard resource was not found."
                    [] st = 429 -> "Productboard API rate limit reached. Please retry shortly.",
         arg |-> ""]]

GenericMessage(status) == [text |-> "Productboard API returned HTTP ", status |-> status]

\* the messages a parsed payload offers, in the order of the lookup
OfferedMessages(obj) ==
    (IF "message" \in DOMAIN obj /\ obj["message"] \notin BlankStrings
     THEN <<obj["message"]>> ELSE <<>>)
    \o (IF "error" \in DOMAIN obj /\ "message" \in DOMAIN obj["error"]
        THEN <<obj["error"]["message"]>> ELSE <<>>)
    \o (IF "errors" \in DOMAIN obj /\ obj["errors"] # <<>>
        THEN LET first == obj["errors"][1]
             IN IF first.t = "string" THEN <<first.str>>
                ELSE IF "message" \in DOMAIN first.obj THEN <<first.obj["message"]>>
                ELSE IF "detail" \in DOMAIN first.obj THEN <<first.obj["detail"]>>
                ELSE <<>>
        ELSE <<>>)

\* C17: a non-2xx answer ends the call with an error carrying the HTTP
\* status; for 401, 403, 404 and 429 the message is the fixed one whatever
\* the payload, for any other status it is the first message the payload
\* offers (a non-blank message, error.message, the first of errors as a
\* string or its message or detail), and when a parsed payload offers none,
\* or the body is empty, it is the generic message naming the status code.
\* A body that is not JSON gives its raw text as the message.
C17_ErrorMessageFromPayload ==
    \A response \in ErrorResponses :
        (pc = "done" /\ caught = buildApiError(response)) =>
            /\ Failed
            /\ "status" \in ErrorBody.keys /\ ErrorBody.status = response.status
            /\ ErrorBody.message =
                  IF response.status \in DOMAIN FixedMessages
                  THEN FixedMessages[response.status]
                  ELSE IF response.payload.defined
                  THEN IF OfferedMessages(response.payload.obj) # <<>>
                       THEN [text |-> OfferedMessages(response.payload.obj)[1], arg |-> ""]
                       ELSE GenericMessage(response.status)
                  ELSE IF response.rawText # ""
                  THEN [text |-> response.rawText, arg |-> ""]
                  ELSE GenericMessage(response.status)

\* The comma-split segments of a string, described by positions: a segment
\* with a word in it runs from its first word to its last word.
WordAt(str, i) == str[i] \notin {",", " "}
SameSegment(str, i, j) == \A k \in 1..Len(str) : (i <= k /\ k <= j) \/ (j <= k /\ k <= i) => str[k] # ","
FirstWords(str) ==
    {i \in 1..Len(str) :
        WordAt(str, i) /\ \A j \in 1..(i - 1) : SameSegment(str, i, j) => ~WordAt(str, j)}
LastWordFrom(str, i) ==
    CHOOSE j \in i..Len(str) :
        /\ WordAt(str, j) /\ SameSegment(str, i, j)
        /\ \A k \in (j + 1)..Len(str) : SameSegment(str, i, k) => ~WordAt(str, k)
Ascending(S) ==
    CHOOSE f \in [1..Cardinality(S) -> S] : \A a, b \in 1..Cardinality(S) : a < b => f[a] < f[b]
TrimmedSegments(str) ==
    LET first == Ascending(FirstWords(str))
    IN [n \in 1..Len(first) |-> SubSeq(str, first[n], LastWordFrom(str, first[n]))]

\* a sequence with every element trimmed and the empty ones left out, in order
TrimmedItems(items) ==
    LET kept == SelectSeq(items, LAMBDA item : \E i \in 1..Len(item) : item[i] # " ")
    IN [n \in 1..Len(kept) |-> Trim(kept[n])]

IsNormalizedList(items) ==
    \A n \in 1..Len(items) :
        items[n] # <<>> /\ items[n][1] # " " /\ items[n][Len(items[n])] # " "

\* the tags a call sent: the body of pb_note_create, the data of pb_note_update
SentTags ==
    IF toolName = "pb_note_create" THEN requests[1].body.obj.tags
    ELSE requests[1].body.obj.data.tags

\* C18: tags given as one comma-separated string are sent as the comma-split
\* segments, each trimmed, the empty ones dropped, in the original order and
\* with duplicates kept ("a, b ,,c" gives a, b, c); tags given as a sequence
\* keep their order and duplicates; an already normalized list is sent
\* unchanged.  This holds in pb_note_create, and in normalizeStringArray as
\* pb_note_update and pb_custom_fields_list use it.
C18_TagNormalization ==
    /\ (toolName \in {"pb_note_create", "pb_note_update"} /\ requests # <<>>
        /\ "tags" \in DOMAIN toolArgs /\ toolArgs.tags.t \in {"string", "array"}) =>
            LET tags == toolArgs.tags
            IN /\ "tags" \in DOMAIN (IF toolName = "pb_note_create"
                                     THEN requests[1].body.obj
                                     ELSE requests[1].body.obj.data)
               /\ tags.t = "string" => SentTags = TrimmedSegments(tags.str)
               /\ tags.t = "array" =>
                    /\ SentTags = IF toolName = "pb_note_create" THEN tags.items
                                  ELSE TrimmedItems(tags.items)
                    /\ IsNormalizedList(tags.items) => SentTags = tags.items
    /\ (toolName = "pb_custom_fields_list" /\ requests # <<>>) =>
            LET type == toolArgs.type
            IN /\ type.t = "string" =>
                    requests[1].search[<<"type">>] = [commaJoined |-> TrimmedSegments(type.str)]
               /\ type.t = "array" =>
                    /\ requests[1].search[<<"type">>] = [commaJoined |-> TrimmedItems(type.items)]
                    /\ IsNormalizedList(type.items) =>
                            requests[1].search[<<"type">>] = [commaJoined |-> type.items]

C18_Witness ==
    /\ toolName = "pb_note_create" /\ Succeeded /\ requests # <<>>
    /\ "tags" \in DOMAIN toolArgs
    /\ toolArgs.tags = CommaString(<<"a", ",", " ", "b", " ", ",", ",", "c">>)
    /\ requests[1].body.obj.tags = <<<<"a">>, <<"b">>, <<"c">>>>

TrueInputs == {JsBoolean(TRUE), JsNumber("1"), JsString("1"), JsString("true")}
FalseInputs == {JsBoolean(FALSE), JsNumber("0"), JsString("0"), JsString("false")}

\* a call of pb_feature_release_assign that names its feature and its release
AssignCall ==
    /\ toolName = "pb_feature_release_assign" /\ pc # "idle"
    /\ Truthy(AssignmentFeatureId(toolArgs)) /\ Truthy(AssignmentReleaseId(toolArgs))

\* C19: the assigned flag of pb_feature_release_assign is read as true for
\* true, 1, "1", "true" and as false for false, 0, "0", "false", and the body
\* of the request carries exactly that boolean; every other value, null and
\* differently-cased strings among them, is a validation error (status 400)
\* naming the field, and an absent flag is a missing required parameter;
\* both are raised before any request.
C19_BooleanInput ==
    AssignCall =>
        IF "assigned" \notin DOMAIN toolArgs
        THEN /\ caught = ValidationError("Missing required parameter: assigned", "")
             /\ caught.status = 400 /\ requests = <<>>
        ELSE IF toolArgs.assigned \in TrueInputs \cup FalseInputs
        THEN /\ caught.kind # "validation"
             /\ requests # <<>> =>
                    requests[1].body.obj.data = [assigned |-> toolArgs.assigned \in TrueInputs]
             /\ ValidToken => requests # <<>>
        ELSE /\ caught = ValidationError("Invalid boolean for ", "assigned")
             /\ caught.status = 400 /\ requests = <<>>

C19_Witness ==
    /\ AssignCall /\ Succeeded
    /\ "assigned" \in DOMAIN toolArgs /\ toolArgs.assigned = JsString("false")
    /\ requests[1].body.obj.data.assigned = FALSE

ProgressFields == <<"startValue", "targetValue", "currentValue", "progress">>

ProgressFieldLabel ==
    [startValue |-> "progress.startValue", targetValue |-> "progress.targetValue",
     currentValue |-> "progress.currentValue", progress |-> "progress.progress"]

NestedProgress(args) ==
    IF "progress" \in DOMAIN args /\ args["progress"].t = "object"
    THEN args["progress"].obj ELSE EmptyObject

TopLevelProgress(args) ==
    IF "progress" \in DOMAIN args /\ args["progress"].t = "scalar"
    THEN args["progress"].value ELSE Undefined

\* the value a progress field resolves to: the nested object first, then the
\* flat aliases, then (for progress) the top-level scalar
ResolvedProgress(args, field) ==
    CASE field = "startValue" ->
            FirstGiven(<<Get(NestedProgress(args), "startValue"),
                         Get(args, "start_value"), Get(args, "startValue")>>)
      [] field = "targetValue" ->
            FirstGiven(<<Get(NestedProgress(args), "targetValue"),
                         Get(args, "target_value"), Get(args, "targetValue")>>)
      [] field = "currentValue" ->
            FirstGiven(<<Get(NestedProgress(args), "currentValue"),
                         Get(args, "current_value"), Get(args, "currentValue")>>)
      [] field = "progress" ->
            FirstGiven(<<Get(NestedProgress(args), "progress"), Get(args, "progress_value"),
                         Get(args, "progressPercent"), TopLevelProgress(args)>>)

\* the call has reached the progress of pb_key_result_create or
\* pb_key_result_update: the checks before it have passed
ReachedProgress ==
    /\ pc # "idle"
    /\ \/ /\ toolName = "pb_key_result_create"
          /\ Truthy(KeyResultParentId(toolArgs)) /\ Truthy(Get(toolArgs, "name"))
       \/ /\ toolName = "pb_key_result_update"
          /\ Truthy(Get(toolArgs, "id"))
    /\ resolveStatusFromArgs(toolArgs).err = NoError
    /\ buildDateTimeframeInput(toolArgs).err = NoError

\* C20: in pb_key_result_create and pb_key_result_update, startValue,
\* targetValue, currentValue and progress each resolve from the nested
\* progress object, then the flat aliases, then (progress only) the top-level
\* scalar; a resolved value that is no finite number ends the call with a
\* validation error (status 400) naming the first such field, before any
\* request; when none resolves the body has no progress key, and otherwise
\* its progress object has exactly the resolved fields, as numbers, 0 kept.
\* A field whose first given value is the empty string does not resolve.
C20_ProgressInput ==
    ReachedProgress =>
        LET Resolves(n) == IsPresent(ResolvedProgress(toolArgs, ProgressFields[n]))
            Refused(n) ==
                Resolves(n) /\ ResolvedProgress(toolArgs, ProgressFields[n]) \notin FiniteNumerals
            given == {ProgressFields[n] : n \in {m \in 1..4 : Resolves(m)}}
        IN IF \E n \in 1..4 : Refused(n)
           THEN LET first == CHOOSE n \in 1..4 : Refused(n) /\ \A m \in 1..(n - 1) : ~Refused(m)
                IN /\ caught = ValidationError("Invalid number for ",
                                               ProgressFieldLabel[ProgressFields[first]])
                   /\ caught.status = 400
                   /\ requests = <<>>
           ELSE /\ caught.kind = "validation" => caught.message.text # "Invalid number for "
                /\ (ValidToken /\ given # {}) => requests # <<>>
                /\ requests # <<>> =>
                    LET data == requests[1].body.obj.data
                    IN IF given = {} THEN "progress" \notin DOMAIN data
                       ELSE /\ "progress" \in DOMAIN data
                            /\ DOMAIN data.progress = given
                            /\ \A field \in given :
                                /\ data.progress[field] \in Nat
                                /\ ToString(data.progress[field])
                                        = ResolvedProgress(toolArgs, field)

C20_Witness ==
    /\ ReachedProgress /\ Succeeded /\ toolName = "pb_key_result_create"
    /\ Get(toolArgs, "start_value") = "5"
    /\ requests[1].body.obj.data.progress = ("startValue" :> 0)

RECURSIVE ItemsReceived(_)
\* the number of items in the first k responses of a walk
ItemsReceived(k) ==
    IF k = 0 THEN 0 ELSE ItemsReceived(k - 1) + Len(PageItemsOf(responses[k]))

NotesWalk == toolName = "pb_notes_list" /\ frame.fn = "listNotes"

\* C21: in the walk of listNotes every request carries pageLimit = min(100,
\* N - items accumulated so far), a value from 1 to 100; every request after
\* the first carries as pageCursor the pageCursor of the response just
\* before it; and the first request carries the cursor the caller gave, or no
\* pageCursor parameter when the caller gave none.
C21_NotesPageLimitAndCursor ==
    NotesWalk =>
        \A k \in 1..Len(requests) :
            LET search == requests[k].search
                accumulated == Min(frame.maxItems, ItemsReceived(k - 1))
            IN /\ <<"pageLimit">> \in DOMAIN search
               /\ search[<<"pageLimit">>] = [digits |-> Min(100, frame.maxItems - accumulated)]
               /\ search[<<"pageLimit">>].digits \in 1..100
               /\ IF k > 1
                  THEN /\ <<"pageCursor">> \in DOMAIN search
                       /\ search[<<"pageCursor">>] = [string |-> responses[k - 1].next]
                  ELSE IF Truthy(Get(toolArgs, "pageCursor"))
                  THEN /\ <<"pageCursor">> \in DOMAIN search
                       /\ search[<<"pageCursor">>] = [string |-> Get(toolArgs, "pageCursor")]
                  ELSE <<"pageCursor">> \notin DOMAIN search

C21_Witness ==
    /\ NotesWalk /\ frame.maxItems = 250 /\ Len(requests) = 2
    /\ Len(frame.items) = 1
    /\ requests[1].search[<<"pageLimit">>] = [digits |-> 100]
    /\ <<"pageCursor">> \notin DOMAIN requests[1].search
    /\ requests[2].search[<<"pageLimit">>] = [digits |-> 100]
    /\ requests[2].search[<<"pageCursor">>] = [string |-> "c1"]

LinksWalk == frame.fn = "listWithLinks"

\* the caller gave a page size of their own, through the raw filters
CallerPageSize == <<"pageLimit">> \in DOMAIN flattenFilters(toolArgs)

\* C22: in the walk of listWithLinks the page size min(100, N) is put into
\* the first request only, and only by pb_companies_list (pageLimit) when the
\* caller gave no page size; every later request goes to the URL of the
\* links.next of the response before it, resolved against the base URL when
\* relative, with no query parameter added to it.
C22_PageSizeOnFirstRequestOnly ==
    (LinksWalk /\ requests # <<>>) =>
        /\ LET search == requests[1].search
           IN IF toolName = "pb_companies_list"
              THEN /\ <<"pageLimit">> \in DOMAIN search
                   /\ search[<<"pageLimit">>] =
                        IF CallerPageSize
                        THEN [string |-> flattenFilters(toolArgs)[<<"pageLimit">>].v]
                        ELSE [digits |-> Min(100, frame.maxItems)]
              ELSE ~CallerPageSize => <<"pageLimit">> \notin DOMAIN search
        /\ \A k \in 2..Len(requests) :
            LET next == responses[k - 1].next
            IN /\ requests[k].search = EmptyObject
               /\ requests[k].url.href = <<next>>
               /\ requests[k].url.host =
                    IF next = RelativeNext THEN "api.productboard.com"
                    ELSE IF next = SameHostNext THEN "api.productboard.com"
                    ELSE "files.example.net"

C22_Witness ==
    /\ LinksWalk /\ toolName = "pb_companies_list" /\ Len(requests) = 2
    /\ Get(toolArgs, "term") = "t1"
    /\ requests[1].search = (<<"term">> :> [string |-> "t1"])
                            @@ (<<"pageLimit">> :> [digits |-> MaxSmallLimit])
    /\ requests[2].url = [host |-> "api.productboard.com", href |-> <<RelativeNext>>]
    /\ requests[2].search = EmptyObject

\* the query the handler of the call hands to its first request
GivenQuery ==
    LET plan == RunHandler(toolName, toolArgs)
    IN IF plan.op = "listWithLinks" THEN EnterListWithLinks(plan).firstQuery
       ELSE IF plan.op = "listNotes" THEN PageQuery(EnterListNotes(plan))
       ELSE plan.query

\* a query value that is undefined, null or the empty string
AbsentValue(value) ==
    \/ value.t = "scalar" /\ value.v \in {Undefined, Null, ""}
    \/ value.t = "null"
    \/ value.t = "string" /\ value.lit = ""
    \/ value.t = "joined" /\ value.items \in {<<>>, <<"">>}
    \/ value.t = "joinedList" /\ value.items = <<>>

\* a parameter sent as the empty string or as the string of null or undefined
EmptyForm(sent) ==
    \/ "string" \in DOMAIN sent /\ sent.string \in {"", "null", Null, Undefined}
    \/ "commaJoined" \in DOMAIN sent /\ sent.commaJoined = <<>>

\* C23: in the request built from a relative path, a query parameter whose
\* value is undefined, null or the empty string is left out of the URL, never
\* sent as an empty string or as "null"; every other value, false and 0
\* among them, is sent as its string form.
C23_EmptyQueryValuesOmitted ==
    (toolName \in RegisteredTools /\ requests # <<>>) =>
        LET search == requests[1].search
        IN /\ DOMAIN search = {key \in DOMAIN GivenQuery : ~AbsentValue(GivenQuery[key])}
           /\ \A key \in DOMAIN search :
                LET value == GivenQuery[key]
                IN /\ ~EmptyForm(search[key])
                   /\ value.t \in {"boolean", "number", "string"} =>
                            search[key] = [string |-> value.lit]
                   /\ value.t = "scalar" => search[key] = [string |-> value.v]
                   /\ value.t = "integer" => search[key] = [digits |-> value.n]
                   /\ value.t \in {"joined", "joinedList"} =>
                            search[key] = [commaJoined |-> value.items]

C23_Witness ==
    /\ toolName = "pb_features_list" /\ requests # <<>>
    /\ "filters" \in DOMAIN toolArgs /\ "archived" \in DOMAIN toolArgs
    /\ GivenQuery[<<"archived">>] = JsBoolean(FALSE)
    /\ GivenQuery[<<"x">>] = Scalar("")
    /\ requests[1].search = (<<"archived">> :> [string |-> "false"])
                            @@ (<<"n">> :> [string |-> "0"])

NotFound == [ended |-> "status", status |-> 404]

\* C24: pb_user_current first requests GET /user and requests GET /users
\* exactly when GET /user was answered 404, then returning the number of
\* users and the first of them (or null); every other failure of GET /user
\* and every failure of GET /users is the error of the call; at most two
\* requests are issued; and no other operation sends anything after a 404.
C24_UserCurrentFallback ==
    /\ toolName = "pb_user_current" =>
        /\ Len(requests) <= 2
        /\ requests # <<>> =>
            /\ requests[1].method = "GET" /\ requests[1].url = BaseUrl(<<"/user">>)
            /\ Len(requests) = 2 <=> (answers # <<>> /\ answers[1] = NotFound)
        /\ Len(requests) = 2 =>
            /\ requests[2].method = "GET" /\ requests[2].url = BaseUrl(<<"/users">>)
            /\ requests[2].search = EmptyObject
        /\ (Len(answers) = 2 /\ answers[2].ended = "ok") =>
            LET users == IF answers[2].payload.isArray THEN answers[2].payload.data ELSE <<>>
            IN /\ Succeeded
               /\ Result.users_count = Len(users)
               /\ Result.first_user = IF users = <<>> THEN <<>> ELSE <<users[1]>>
        /\ \A k \in 1..Len(answers) :
            (answers[k].ended # "ok" /\ ~(k = 1 /\ answers[k] = NotFound)) =>
                /\ Failed /\ k = Len(answers) /\ Len(requests) = k
                /\ IF answers[k].ended = "status"
                   THEN "status" \in ErrorBody.keys /\ ErrorBody.status = answers[k].status
                   ELSE caught = NetworkError /\ "status" \notin ErrorBody.keys
    /\ (toolName # "pb_user_current" /\ answers # <<>>) =>
        \A k \in 1..Len(answers) :
            answers[k] = NotFound =>
                /\ Failed /\ k = Len(answers) /\ Len(requests) = k
                /\ ErrorBody.status = 404

C24_Witness ==
    /\ toolName = "pb_user_current" /\ Succeeded
    /\ Len(requests) = 2 /\ answers[1] = NotFound
    /\ Result.users_count = 2
    /\ Result.first_user = <<[page |-> 1, pos |-> 1]>>

\* C26: within a walk at most one request is outstanding; request k + 1 is
\* sent only after request k was answered 2xx and the items of its page were
\* appended, and it uses the continuation of that response (its links.next
\* as the URL, its pageCursor as the cursor); a request that fails is the
\* last one, and its error is the outcome of the call, an error envelope
\* that holds none of the items accumulated.
C26_WalkIsSequential ==
    Walking =>
        /\ Len(requests) = Len(answers) + (IF pc = "await" THEN 1 ELSE 0)
        /\ pc = "await" => frame.items = fetched
        /\ \A k \in 1..(Len(requests) - 1) :
            /\ answers[k].ended = "ok"
            /\ answers[k].payload = responses[k]
            /\ Truthy(responses[k].next)
            /\ IF frame.fn = "listWithLinks"
               THEN requests[k + 1].url.href = <<responses[k].next>>
               ELSE requests[k + 1].search[<<"pageCursor">>] = [string |-> responses[k].next]
        /\ \A k \in 1..Len(answers) :
            answers[k].ended # "ok" =>
                /\ k = Len(answers) /\ Len(requests) = k
                /\ Failed /\ ErrorEnvelope
                /\ caught.kind \in {"remote", "transport"}
                /\ ErrorBody.message = caught.message

C26_Witness ==
    /\ Walking /\ Failed
    /\ Len(requests) = 2 /\ Len(answers) = 2
    /\ answers[1].ended = "ok" /\ answers[2].ended = "rejected"
    /\ Len(frame.items) = 1
    /\ DOMAIN Result = {"error"}

----------------------------------------------------------------------------
(* Walks of unbounded length.  Spec stops the remote from continuing a walk *)
(* beyond MaxRequests requests.  SpecLive lets it continue: from there on   *)
(* the histories keep their last MaxRequests entries only, and every fetch  *)
(* outstanding is eventually answered.                                      *)

WalkCalls ==
    {Call(name, a) :
        name \in {"pb_features_list", "pb_notes_list", "pb_companies_list"},
        a \in LimitArgs(SmallLimits)}

\* the host calls a list operation
CallWalk ==
    /\ pc = "idle"
    /\ \E call \in WalkCalls :
        /\ toolName' = call.name
        /\ toolArgs' = call.args
        /\ UNCHANGED <<envToken, parked, fetched, responses, answers>>
        /\ InvokeHandler(call.name, RunHandler(call.name, call.args))

\* The remote answers request number MaxRequests or later with a page that
\* lets the walker go on: the walker appends the page, takes the continuation
\* and sends its next request.
RespondOkAgain ==
    /\ pc = "await" /\ Walking /\ Len(requests) = MaxRequests
    /\ \E payload \in PayloadsFor(frame) :
        /\ GoesOn(frame, payload)
        /\ LET pageItems == PageItemsOf(payload)
               remaining == frame.maxItems - Len(frame.items)
               items == frame.items \o SlicePage(pageItems, remaining)
               f == IF frame.fn = "listWithLinks"
                    THEN [frame EXCEPT !.items = items,
                                       !.nextUrl = ResolveNext(payload.next),
                                       !.firstQuery = EmptyObject]
                    ELSE [frame EXCEPT !.items = items, !.cursor = payload.next]
               request == IF frame.fn = "listWithLinks"
                          THEN AbsoluteRequest(f.nextUrl)
                          ELSE RelativeRequest("GET", f.path, PageQuery(f), NoBody)
           IN /\ frame' = f
              /\ requests' = Append(Tail(requests),
                     request @@ [authorization |-> requests[1].authorization])
              /\ responses' = Append(Tail(responses), payload)
              /\ answers' = Append(Tail(answers), [ended |-> "ok", payload |-> payload])
              /\ fetched' = fetched \o pageItems
              /\ UNCHANGED <<envToken, parked, pc, toolName, toolArgs, caught, outcome>>

\* the fetch outstanding is answered or rejected
Answer == RespondOk \/ RespondOkAgain \/ RespondError \/ NetworkFail

NextLive == CallWalk \/ RespondOk \/ RespondOkAgain \/ RespondError \/ NetworkFail

SpecLive == Init /\ [][NextLive]_vars /\ WF_vars(Answer)

\* C25: every walk of listWithLinks or listNotes that has a request
\* outstanding eventually returns a result or an error, whatever pages the
\* remote returns, each request being answered.
C25_WalkTerminates == (Walking /\ pc = "await") ~> (pc = "done")

----------------------------------------------------------------------------
(* Overlapping invocations.  The host may dispatch a tool call while       *)
(* another is suspended at an await.  The invocation that runs is the one  *)
(* in the variables; the others wait in parked.  Every step of a handler   *)
(* runs from one await to the next without interruption, so invocations    *)
(* interleave only where one is suspended and another is resumed.          *)

\* what the invocation that runs owns: its request, the locals of its
\* handler, its fetches and their answers, and the envelope it returned
Invocation ==
    [pc |-> pc, toolName |-> toolName, toolArgs |-> toolArgs, frame |-> frame,
     requests |-> requests, fetched |-> fetched, responses |-> responses,
     answers |-> answers, caught |-> caught, outcome |-> outcome]

\* a variant whose walkers keep their accumulator outside the function: an
\* invocation that is resumed finds the items as the last one to run left them
OwnSharingItems(f) ==
    IF "items" \in DOMAIN f /\ "items" \in DOMAIN frame
    THEN [f EXCEPT !.items = frame.items]
    ELSE f

\* const items = []; let nextUrl = ...; let cursor = ...: the accumulator and
\* the continuation are locals of the call of the walker, so an invocation
\* that is resumed finds them as it left them
Own(f) == f

\* the event loop suspends the invocation that runs, at its await or after
\* its return, and starts or resumes another
Resume ==
    \E i \in 1..Len(parked) :
        /\ parked[i].pc # "done"
        /\ parked' = [parked EXCEPT ![i] = Invocation]
        /\ pc' = parked[i].pc
        /\ toolName' = parked[i].toolName
        /\ toolArgs' = parked[i].toolArgs
        /\ frame' = Own(parked[i].frame)
        /\ requests' = parked[i].requests
        /\ fetched' = parked[i].fetched
        /\ responses' = parked[i].responses
        /\ answers' = parked[i].answers
        /\ caught' = parked[i].caught
        /\ outcome' = parked[i].outcome
        /\ UNCHANGED envToken

\* the calls followed where invocations overlap: a walk of each walker
OverlappingCalls ==
    {Call(name, [limit |-> Num(MaxSmallLimit)]) :
        name \in {"pb_features_list", "pb_notes_list"}}

\* the pages followed where invocations overlap
OverlappingPayloads ==
    {payload \in PagePayloads(1, {Undefined, RelativeNext, SameHostNext, "c1", "c2"})
               \cup PagePayloads(2, {Undefined, RelativeNext, SameHostNext, "c1", "c2"}) :
        payload.isArray /\ Len(payload.data) <= 1}

\* the host dispatches one of the calls followed: the dispatch handler runs
\* its handler to the first awaited fetch, or to the envelope it returns
CallOne ==
    /\ pc = "idle"
    /\ \E call \in OverlappingCalls :
        /\ toolName' = call.name
        /\ toolArgs' = call.args
        /\ UNCHANGED <<envToken, parked, fetched, responses, answers>>
        /\ InvokeHandler(call.name, RunHandler(call.name, call.args))

\* the fetch of the invocation that runs is answered 2xx with one of the
\* pages followed, the walks followed being of two requests at most
RespondOkOne ==
    /\ RespondOk
    /\ answers'[Len(answers')].payload \in OverlappingPayloads
    /\ Len(requests') <= 2

\* the fetch of the invocation that runs is answered 403
RespondErrorOne == RespondError /\ answers'[Len(answers')].status = 403

NextPair == CallOne \/ RespondOkOne \/ RespondErrorOne \/ NetworkFail \/ Resume

SpecPair == Init /\ [][NextPair]_vars

\* every invocation: the one that runs and the ones parked
Invocations == <<Invocation>> \o parked

WalkOf(r) == r.frame.fn \in {"listWithLinks", "listNotes"}

\* the concatenation of the data arrays of the 2xx answers of an invocation
RECURSIVE ItemsAnswered(_)
ItemsAnswered(as) ==
    IF as = <<>> THEN <<>>
    ELSE ItemsAnswered(SubSeq(as, 1, Len(as) - 1))
         \o (IF as[Len(as)].ended = "ok" THEN PageItemsOf(as[Len(as)].payload) ELSE <<>>)

\* the continuation that a request of a walk carries
ContinuationOf(r, k) ==
    IF r.frame.fn = "listWithLinks"
    THEN r.requests[k].url.href
    ELSE <<r.requests[k].search[<<"pageCursor">>].string>>

\* a walk holds only what its own answers gave it
OwnItemsAndContinuations(r) ==
    /\ r.fetched = ItemsAnswered(r.answers)
    /\ r.frame.items = Prefix(r.fetched, r.frame.maxItems)
    /\ \A k \in 1..(Len(r.requests) - 1) :
        /\ r.answers[k].ended = "ok"
        /\ ContinuationOf(r, k + 1) = <<r.answers[k].payload.next>>
    /\ (r.pc = "done" /\ r.outcome.keys = {"content"}) =>
        r.outcome.content[1].json.items = r.frame.items

\* two invocations of the same call whose answers agree up to the n-th have
\* sent the same requests up to request n + 1
SameRequestsUpTo(r, s, n) ==
    Prefix(r.answers, n) = Prefix(s.answers, n) =>
        Prefix(r.requests, n + 1) = Prefix(s.requests, n + 1)

\* C27: where invocations overlap and their steps interleave in any order,
\* each walk accumulates the items of its own answers only and each of its
\* requests carries the continuation of its own previous answer; and two
\* invocations of the same call with the same credential send the same
\* requests as far as their answers agree and, when all their answers
\* agree, have returned the same envelope, whichever of them ran while the
\* other was suspended and whichever ran with no other in flight.
C27_InvocationsIndependent ==
    /\ \A i \in 1..Len(Invocations) :
        WalkOf(Invocations[i]) => OwnItemsAndContinuations(Invocations[i])
    /\ \A i, j \in 1..Len(Invocations) :
        LET r == Invocations[i]
            s == Invocations[j]
        IN (r.pc # "idle" /\ r.toolName = s.toolName /\ r.toolArgs = s.toolArgs) =>
            /\ \A n \in 0..Len(r.answers) : SameRequestsUpTo(r, s, n)
            /\ r.answers = s.answers =>
                /\ r.pc = s.pc /\ r.frame = s.frame
                /\ r.caught = s.caught /\ r.outcome = s.outcome

\* two walks of the same call are in flight at once, each at its second
\* request with a continuation and a page of its own, and a third
\* invocation of that call has returned after the same first answer as one
C27_Witness ==
    /\ pc = "await" /\ Walking /\ Len(requests) = 2
    /\ parked[1].pc = "await" /\ Len(parked[1].requests) = 2
    /\ parked[1].toolName = toolName /\ parked[1].toolArgs = toolArgs
    /\ parked[1].answers[1].payload.next # answers[1].payload.next
    /\ parked[1].fetched # fetched
    /\ parked[2].pc = "done" /\ parked[2].outcome.keys = {"content"}
    /\ parked[2].toolName = toolName
    /\ Len(parked[2].answers) = 2 /\ parked[2].answers[1] = answers[1]
    /\ parked[2].requests = requests

----------------------------------------------------------------------------
(* Spellings of a parent                                                    *)

\* the spellings of the id of a parent kind, in the order of the code: under
\* parent, nested, dotted key, flat alias
SpellingsOf(args, k) ==
    <<Get3(args, "parent", k[1], "id"), Get2(args, k[1], "id"),
      Get(args, k[2]), Get(args, k[3])>>

\* the first of the values that is not empty, or undefined when all are
FirstNonEmpty(values) ==
    IF \E i \in 1..Len(values) : IsPresent(values[i])
    THEN values[CHOOSE i \in 1..Len(values) :
                    IsPresent(values[i]) /\ \A j \in 1..(i - 1) : ~IsPresent(values[j])]
    ELSE Undefined

\* the kinds of which some spelling carries a non-empty id
SpelledKinds(args) == {k \in ParentKinds : IsPresent(FirstNonEmpty(SpellingsOf(args, k)))}

\* C28: in pb_feature_create and pb_feature_update, whenever the spellings
\* of exactly one parent kind carry a non-empty id, normalizeParentInput
\* returns that kind with the first non-empty id of its spellings, in the
\* order parent.<kind>.id, <kind>.id, '<kind>.id', flat alias, and raises
\* no error for the parent, even if another spelling of the kind is empty.
C28_FirstNonEmptySpelling ==
    (ReachedParent /\ Cardinality(SpelledKinds(toolArgs)) = 1) =>
        LET r == normalizeParentInput(toolArgs, toolName = "pb_feature_create")
        IN \A k \in SpelledKinds(toolArgs) :
            /\ r.err = NoError
            /\ r.value.defined
            /\ r.value.obj = k[1] :> [id |-> FirstNonEmpty(SpellingsOf(toolArgs, k))]

----------------------------------------------------------------------------
(* The archived flag of a body                                              *)

ArchivedWriters ==
    {"pb_feature_create", "pb_feature_update", "pb_objective_update",
     "pb_key_result_update", "pb_initiative_update", "pb_release_update"}

\* the call is a create or an update that was given an archived flag, and
\* its request has gone out
SentArchived ==
    /\ toolName \in ArchivedWriters
    /\ "archived" \in DOMAIN toolArgs
    /\ requests # <<>>

\* C29: in every create or update with an archived flag, the archived value
\* of the body sent is false when the caller gave false, 0, "0" or "false"
\* and true when the caller gave true, 1, "1" or "true", as toBooleanInput
\* maps them for the assigned flag.
C29_ArchivedAsBooleanInput ==
    SentArchived =>
        LET sent == requests[1].body.obj.data
        IN /\ toolArgs["archived"] \in FalseInputs => sent["archived"] = FALSE
           /\ toolArgs["archived"] \in TrueInputs => sent["archived"] = TRUE

----------------------------------------------------------------------------
(* The product of pb_features_list                                          *)

\* the spellings of the product, in the order of the code
ProductSpellings(args) ==
    <<Get(args, "product_id"), Get(args, "product.id"), Get2(args, "product", "id")>>

\* the parent.id the call asks for: the first non-empty spelling of the
\* product, or else parent_id when that is given
ParentIdAsked(args) ==
    IF IsPresent(FirstNonEmpty(ProductSpellings(args)))
    THEN FirstNonEmpty(ProductSpellings(args))
    ELSE IF IsPresent(Get(args, "parent_id")) THEN Get(args, "parent_id")
    ELSE Undefined

\* the first request of pb_features_list has gone out, the raw filters
\* setting no parent.id
SentFeaturesQuery ==
    /\ toolName = "pb_features_list"
    /\ requests # <<>>
    /\ <<"parent", "id">> \notin DOMAIN flattenFilters(toolArgs)

\* C30: in pb_features_list the parent.id of the first request is the first
\* non-empty of product_id, 'product.id' and product.id, in that order and
\* over parent_id, when one of them is non-empty; otherwise it is parent_id
\* when that is given, and is not sent when it is not.
C30_ProductFilterFirstNonEmpty ==
    SentFeaturesQuery =>
        LET sent == requests[1].search
            asked == ParentIdAsked(toolArgs)
        IN IF asked = Undefined
           THEN <<"parent", "id">> \notin DOMAIN sent
           ELSE /\ <<"parent", "id">> \in DOMAIN sent
                /\ sent[<<"parent", "id">>] = [string |-> asked]

====
